---- MODULE Spec2Model ----
(***************************************************************************)
(* State-machine model of the autonomous trading core of the aibingwa      *)
(* agent: the Risk Guard (TradingLimits), the Execution Safety Wrapper     *)
(* (ExecutionSafetyManager) and the AutonomousTrader with its store.       *)
(* Times are milliseconds, as Date.now() gives them.                       *)
(***************************************************************************)
EXTENDS Integers, Sequences, FiniteSets, TLC

VARIABLES
  \* ---- clock (Date.now()) ----
  now,                \* current time in ms
  ticks,              \* number of clock advances made so far
  \* ---- TradingLimits (security.ts) ----
  config,             \* SecurityConfig given to the constructor
  dailyTrades,
  dailyLoss,
  lastResetDate,
  consecutiveLosses,
  lastLossTime,
  totalDrawdown,
  autoTradeKilled,
  lastCall,           \* name of the last TradingLimits method called
  canTradeResult,     \* what the last canTrade call returned
  records,            \* number of recordTrade calls made so far
  \* ---- ExecutionSafetyManager (execution-safety.ts) ----
  executionHistory,   \* request id -> cached ExecutionResult (or no entry)
  cacheTimers,        \* the setTimeout deletions cacheResult has armed
  rateLimits,         \* "type:userId" -> state.requests (timestamps)
  pendingExecutions,  \* set of request ids
  calls,              \* the safeExecute calls in flight: position and request
  lastReturn,         \* the safeExecute call that returned last, and its result
  \* ---- AutonomousTrader (autonomous.ts) and its store (memory.ts) ----
  memory,             \* this.memory: trades, totals and settings
  disk,               \* the document in memory.json, as saveMemory last wrote it
  isScanning,
  isMonitoring,
  scan,               \* position and locals of the scanMarket call in flight
  mon,                \* position and locals of the monitorPositions call in flight
  outbox,             \* bankrPrompt / notify calls awaiting their answer
  traderReturn,       \* the trader method that returned last, and its value
  scanTimer,          \* handle fields; a cleared handle stays in its field
  monitorTimer,
  polymarketTimer,
  timers,             \* the intervals armed in the event loop
  handles,            \* number of setInterval calls made so far
  polymarketStrategy,
  lastLifecycle,      \* which of start() / stop() was called last
  pm,                 \* position and locals of the scanPolymarket call in flight
  cachedPolygonBalance,
  balanceCacheTimestamp,
  \* ---- callers of ExecutionSafetyManager.generateRequestId ----
  requestIds          \* the calls made so far: type, params and the id returned

clockVars == <<now, ticks>>
exVars == <<executionHistory, cacheTimers, rateLimits, pendingExecutions, calls,
            lastReturn>>
limVars == <<config, dailyTrades, dailyLoss, lastResetDate, consecutiveLosses,
             lastLossTime, totalDrawdown, autoTradeKilled, lastCall,
             canTradeResult, records>>
trVars == <<memory, disk, isScanning, isMonitoring, scan, mon, outbox, traderReturn,
            scanTimer, monitorTimer, polymarketTimer, timers, handles,
            polymarketStrategy, lastLifecycle, pm, cachedPolygonBalance,
            balanceCacheTimestamp>>
idVars == <<requestIds>>
vars == <<clockVars, limVars, exVars, trVars, idVars>>

\* ------------------------------------------------------------------------
\* Bounds of the model
\* ------------------------------------------------------------------------
MaxTicks == 3
MaxRecords == 4
MaxCalls == 3
MaxExecTicks == 2
MaxTrades == 1
MaxBets == 1
MaxPolyTicks == 1
MaxHandles == 4

\* ------------------------------------------------------------------------
\* Clock
\* ------------------------------------------------------------------------
MsPerMinute == 60000
MsPerDay == 86400000

\* new Date().toDateString(): the calendar date of the clock
today == now \div MsPerDay

\* ========================================================================
\* TradingLimits
\* ========================================================================

\* The configurations the guard is constructed with
SecurityConfigs ==
  [ maxTradesPerDay : {2, 3},
    maxDailyLossUsd : {100},
    cooldownMinutesAfterLossStreak : {5},
    maxPositionSizePct : {10},
    drawdownKillSwitchPct : {50} ]

\* Inputs of recordTrade and canTrade (whole dollars; pnl even, so that
\* pnlUsd * 0.5 is a whole number)
PnlInputs == {-60, -20, 20, 40}
PortfolioInputs == {100, 200}
PositionInputs == {5, 50}

Max(a, b) == IF a >= b THEN a ELSE b
Abs(a) == IF a < 0 THEN -a ELSE a

LimitsInit ==
  /\ config \in SecurityConfigs
  /\ dailyTrades = 0
  /\ dailyLoss = 0
  /\ lastResetDate = today
  /\ consecutiveLosses = 0
  /\ lastLossTime = 0
  /\ totalDrawdown = 0
  /\ autoTradeKilled = FALSE
  /\ lastCall = "constructor"
  /\ canTradeResult = [allowed |-> TRUE, reason |-> "none"]
  /\ records = 0

\* resetIfNewDay(): the daily counters as they are after the call
newDay == today # lastResetDate
dailyTradesAfterReset == IF newDay THEN 0 ELSE dailyTrades
dailyLossAfterReset == IF newDay THEN 0 ELSE dailyLoss

\* canTrade's decision without the daily trade limit
canTradeDecisionWithoutDailyLimit(positionSizeUsd, currentPortfolioValue) ==
  IF autoTradeKilled
    THEN [allowed |-> FALSE, reason |-> "Auto-trade disabled due to excessive drawdown"]
  ELSE IF positionSizeUsd * 100 > config.maxPositionSizePct * currentPortfolioValue
    THEN [allowed |-> FALSE, reason |-> "Position size exceeds limit"]
  ELSE IF /\ consecutiveLosses >= 3
          /\ now - lastLossTime < config.cooldownMinutesAfterLossStreak * 60 * 1000
    THEN [allowed |-> FALSE, reason |-> "Cooldown active after loss streak"]
  ELSE [allowed |-> TRUE, reason |-> "none"]

\* canTrade's decision, on the counters as resetIfNewDay left them
canTradeDecision(positionSizeUsd, currentPortfolioValue) ==
  IF autoTradeKilled
    THEN [allowed |-> FALSE, reason |-> "Auto-trade disabled due to excessive drawdown"]
  ELSE IF dailyTradesAfterReset >= config.maxTradesPerDay
    THEN [allowed |-> FALSE, reason |-> "Daily trade limit reached"]
  ELSE IF positionSizeUsd * 100 > config.maxPositionSizePct * currentPortfolioValue
    THEN [allowed |-> FALSE, reason |-> "Position size exceeds limit"]
  ELSE IF /\ consecutiveLosses >= 3
          /\ now - lastLossTime < config.cooldownMinutesAfterLossStreak * 60 * 1000
    THEN [allowed |-> FALSE, reason |-> "Cooldown active after loss streak"]
  ELSE [allowed |-> TRUE, reason |-> "none"]

canTrade(positionSizeUsd, currentPortfolioValue) ==
  /\ dailyTrades' = dailyTradesAfterReset
  /\ dailyLoss' = dailyLossAfterReset
  /\ lastResetDate' = today
  /\ canTradeResult' = canTradeDecision(positionSizeUsd, currentPortfolioValue)
  /\ lastCall' = "canTrade"
  /\ UNCHANGED <<config, consecutiveLosses, lastLossTime, totalDrawdown,
                 autoTradeKilled, records>>

\* recordTrade with a win also clearing the latch once the drawdown is healed
recordTradeHealing(pnlUsd, portfolioValue) ==
  /\ dailyTrades' = dailyTradesAfterReset + 1
  /\ lastResetDate' = today
  /\ lastCall' = "recordTrade"
  /\ records' = records + 1
  /\ IF pnlUsd < 0
       THEN /\ dailyLoss' = dailyLossAfterReset + Abs(pnlUsd)
            /\ consecutiveLosses' = consecutiveLosses + 1
            /\ lastLossTime' = now
            /\ totalDrawdown' = totalDrawdown + Abs(pnlUsd)
            /\ autoTradeKilled' =
                 (autoTradeKilled \/
                  totalDrawdown' * 100 >= config.drawdownKillSwitchPct * portfolioValue)
       ELSE /\ dailyLoss' = dailyLossAfterReset
            /\ consecutiveLosses' = 0
            /\ totalDrawdown' = Max(0, totalDrawdown - pnlUsd \div 2)
            /\ autoTradeKilled' = (autoTradeKilled /\ totalDrawdown' > 0)
            /\ UNCHANGED lastLossTime
  /\ UNCHANGED <<config, canTradeResult>>

\* recordTrade with a win relieving the whole pnl from the drawdown
recordTradeFullRelief(pnlUsd, portfolioValue) ==
  /\ dailyTrades' = dailyTradesAfterReset + 1
  /\ lastResetDate' = today
  /\ lastCall' = "recordTrade"
  /\ records' = records + 1
  /\ IF pnlUsd < 0
       THEN /\ dailyLoss' = dailyLossAfterReset + Abs(pnlUsd)
            /\ consecutiveLosses' = consecutiveLosses + 1
            /\ lastLossTime' = now
            /\ totalDrawdown' = totalDrawdown + Abs(pnlUsd)
            /\ autoTradeKilled' =
                 (autoTradeKilled \/
                  totalDrawdown' * 100 >= config.drawdownKillSwitchPct * portfolioValue)
       ELSE /\ dailyLoss' = dailyLossAfterReset
            /\ consecutiveLosses' = 0
            /\ totalDrawdown' = Max(0, totalDrawdown - pnlUsd)
            /\ UNCHANGED <<lastLossTime, autoTradeKilled>>
  /\ UNCHANGED <<config, canTradeResult>>

recordTrade(pnlUsd, portfolioValue) ==
  /\ dailyTrades' = dailyTradesAfterReset + 1
  /\ lastResetDate' = today
  /\ lastCall' = "recordTrade"
  /\ records' = records + 1
  /\ IF pnlUsd < 0
       THEN /\ dailyLoss' = dailyLossAfterReset + Abs(pnlUsd)
            /\ consecutiveLosses' = consecutiveLosses + 1
            /\ lastLossTime' = now
            /\ totalDrawdown' = totalDrawdown + Abs(pnlUsd)
            /\ autoTradeKilled' =
                 (autoTradeKilled \/
                  totalDrawdown' * 100 >= config.drawdownKillSwitchPct * portfolioValue)
       ELSE /\ dailyLoss' = dailyLossAfterReset
            /\ consecutiveLosses' = 0
            /\ totalDrawdown' = Max(0, totalDrawdown - pnlUsd \div 2)
            /\ UNCHANGED <<lastLossTime, autoTradeKilled>>
  /\ UNCHANGED <<config, canTradeResult>>

isDailyLossExceeded ==
  /\ dailyTrades' = dailyTradesAfterReset
  /\ dailyLoss' = dailyLossAfterReset
  /\ lastResetDate' = today
  /\ lastCall' = "isDailyLossExceeded"
  /\ canTradeResult' = [allowed |-> dailyLossAfterReset < config.maxDailyLossUsd,
                        reason |-> "isDailyLossExceeded"]
  /\ UNCHANGED <<config, consecutiveLosses, lastLossTime, totalDrawdown,
                 autoTradeKilled, records>>

resetKillSwitch ==
  /\ autoTradeKilled' = FALSE
  /\ totalDrawdown' = 0
  /\ consecutiveLosses' = 0
  /\ lastCall' = "resetKillSwitch"
  /\ UNCHANGED <<config, dailyTrades, dailyLoss, lastResetDate, lastLossTime,
                 canTradeResult, records>>

\* ---- actions of the Risk Guard specification ----
LimitsTickSteps == {4 * MsPerMinute, MsPerDay}

LimitsTick ==
  /\ ticks < MaxTicks
  /\ \E d \in LimitsTickSteps : now' = now + d
  /\ ticks' = ticks + 1
  /\ lastCall' = "tick"
  /\ UNCHANGED <<config, dailyTrades, dailyLoss, lastResetDate, consecutiveLosses,
                 lastLossTime, totalDrawdown, autoTradeKilled, canTradeResult, records>>
  /\ UNCHANGED <<exVars, trVars, idVars>>

CanTrade ==
  /\ \E p \in PositionInputs, v \in PortfolioInputs : canTrade(p, v)
  /\ UNCHANGED <<clockVars, exVars, trVars, idVars>>

RecordTrade ==
  /\ records < MaxRecords
  /\ \E pnl \in PnlInputs, v \in PortfolioInputs : recordTrade(pnl, v)
  /\ UNCHANGED <<clockVars, exVars, trVars, idVars>>

ResetKillSwitch ==
  /\ resetKillSwitch
  /\ UNCHANGED <<clockVars, exVars, trVars, idVars>>

\* ========================================================================
\* ExecutionSafetyManager
\* ========================================================================
CallIds == 1..MaxCalls
RequestIds == {"X", "Y"}
ActionTypes == {"polymarket_bet"}
UserIds == {"u1"}

\* RATE_LIMITS
RATE_LIMITS(type) ==
  CASE type = "trade" -> [requests |-> 10, windowMs |-> 60000]
    [] type = "scan" -> [requests |-> 60, windowMs |-> 60000]
    [] type = "research" -> [requests |-> 30, windowMs |-> 60000]
    [] type = "polymarket_bet" -> [requests |-> 5, windowMs |-> 60000]

\* cacheResult's default TTL, and the TTL given for a failed result
SuccessTtlMs == 3600000
FailureTtlMs == 300000
\* the retry bound of executeWithRetry
MaxRetries == 3

\* ---- ExecutionResult / ClassifiedError ----
NoError == [type |-> "none", message |-> "none", retryable |-> FALSE, backoffMs |-> 0]
NoResult == [set |-> FALSE, success |-> FALSE, data |-> "none", error |-> NoError,
             cached |-> FALSE]
SuccessResult(value) ==
  [set |-> TRUE, success |-> TRUE, data |-> value, error |-> NoError, cached |-> FALSE]
FailureResult(err) ==
  [set |-> TRUE, success |-> FALSE, data |-> "none", error |-> err, cached |-> FALSE]
DuplicateResult ==
  FailureResult([type |-> "system", message |-> "Duplicate execution prevented",
                 retryable |-> FALSE, backoffMs |-> 0])
RateLimitResult(retryAfterMs) ==
  FailureResult([type |-> "rate_limit", message |-> "Rate limit exceeded",
                 retryable |-> TRUE, backoffMs |-> retryAfterMs])

\* What the operation can throw: an error is the set of substrings its message
\* includes, and its status field
ErrorInputs ==
  { [includes |-> {"ECONNRESET"}, status |-> 0],
    [includes |-> {}, status |-> 429],
    [includes |-> {"insufficient"}, status |-> 0],
    [includes |-> {"market closed"}, status |-> 0],
    [includes |-> {"invalid", "fetch failed"}, status |-> 0],
    [includes |-> {"validation"}, status |-> 0],
    [includes |-> {}, status |-> 0] }

CommonErrors ==
  { [includes |-> {"ECONNRESET"}, status |-> 0],
    [includes |-> {"insufficient"}, status |-> 0] }

includesAny(error, substrings) == error.includes \cap substrings # {}

classifyError(error) ==
  IF includesAny(error, {"ECONNRESET", "ETIMEDOUT", "fetch failed"})
    THEN [type |-> "network", message |-> "Network connection error",
          retryable |-> TRUE, backoffMs |-> 2000]
  ELSE IF includesAny(error, {"rate limit", "429"}) \/ error.status = 429
    THEN [type |-> "rate_limit", message |-> "API rate limit exceeded",
          retryable |-> TRUE, backoffMs |-> 60000]
  ELSE IF includesAny(error, {"insufficient", "balance", "funds"})
    THEN [type |-> "insufficient_balance", message |-> "Insufficient balance for trade",
          retryable |-> FALSE, backoffMs |-> 0]
  ELSE IF includesAny(error, {"market closed", "trading halted", "market not found"})
    THEN [type |-> "market_closed", message |-> "Market is closed or unavailable",
          retryable |-> FALSE, backoffMs |-> 0]
  ELSE IF includesAny(error, {"invalid", "validation"}) \/ error.status = 400
    THEN [type |-> "invalid_params", message |-> "Invalid request parameters",
          retryable |-> FALSE, backoffMs |-> 0]
  ELSE [type |-> "system", message |-> "message",
        retryable |-> TRUE, backoffMs |-> 5000]

\* ---- state at construction ----
NoEntry == [present |-> FALSE, result |-> NoResult, storedAt |-> 0]
NewCall == [pc |-> "new", id |-> "none", type |-> "none", userId |-> "none",
            retryCount |-> 0, wakeAt |-> 0, invocations |-> 0, frames |-> 0,
            error |-> NoError, result |-> NoResult]
\* a call that has returned keeps nothing in the manager
ReturnedCall == [NewCall EXCEPT !.pc = "returned"]
NoReturn == [call |-> 0, request |-> NewCall, result |-> NoResult]
\* safeExecute call c, made with `request`, returns `result` to its caller
returns(c, request, result) ==
  /\ calls' = [calls EXCEPT ![c] = ReturnedCall]
  /\ lastReturn' = [call |-> c, request |-> request, result |-> result]

ExecInit ==
  /\ executionHistory = [i \in RequestIds |-> NoEntry]
  /\ cacheTimers = {}
  /\ rateLimits = [k \in ActionTypes \X UserIds |-> <<>>]
  /\ pendingExecutions = {}
  /\ calls = [c \in CallIds |-> NewCall]
  /\ lastReturn = NoReturn
  /\ requestIds = {}

\* ---- rate limiter ----
\* state.requests after "Clean old requests outside window"
cleanRequests(type, userId) ==
  SelectSeq(rateLimits[<<type, userId>>],
            LAMBDA timestamp : now - timestamp < RATE_LIMITS(type).windowMs)

SetMin(S) == CHOOSE m \in S : \A x \in S : m <= x
SeqMin(s) == CHOOSE m \in {s[i] : i \in DOMAIN s} : \A i \in DOMAIN s : m <= s[i]

checkRateLimit(type, userId) ==
  LET limit == RATE_LIMITS(type)
      requests == cleanRequests(type, userId)
  IN IF Len(requests) >= limit.requests
       THEN [allowed |-> FALSE,
             retryAfterMs |-> Max(limit.windowMs - (now - SeqMin(requests)), 0)]
       ELSE [allowed |-> TRUE, retryAfterMs |-> 0]

\* updateRateLimit on the state checkRateLimit left (requests pushed: now)
updateRateLimit(limits, type, userId) ==
  [limits EXCEPT ![<<type, userId>>] = Append(@, now)]

\* ---- cache ----
getCachedResult(requestId) == executionHistory[requestId]

cacheResult(requestId, result, ttlMs) ==
  /\ executionHistory' = [executionHistory EXCEPT ![requestId] =
                            [present |-> TRUE, result |-> result, storedAt |-> now]]
  /\ cacheTimers' = cacheTimers \cup {[id |-> requestId, at |-> now + ttlMs]}

\* ---- executeWithRetry ----
\* The frame up to "await executor()": mark pending, count the request, invoke
\* the operation.
executeWithRetry(c, request, limits) ==
  /\ pendingExecutions' = pendingExecutions \cup {request.id}
  /\ rateLimits' = updateRateLimit(limits, request.type, request.userId)
  /\ calls' = [calls EXCEPT ![c] =
                 [request EXCEPT !.pc = "running", !.invocations = @ + 1]]
  /\ UNCHANGED lastReturn

\* The innermost frame ends with a result: cache it, run its finally, and
\* leave the enclosing frames (one per retry made) to run theirs.
frameReturns(c, result, ttlMs) ==
  /\ cacheResult(calls[c].id, result, ttlMs)
  /\ pendingExecutions' = pendingExecutions \ {calls[c].id}
  /\ IF calls[c].retryCount = 0
       THEN returns(c, calls[c], result)
       ELSE /\ calls' = [calls EXCEPT ![c].pc = "unwinding",
                                      ![c].frames = calls[c].retryCount,
                                      ![c].result = result]
            /\ UNCHANGED lastReturn
  /\ UNCHANGED rateLimits

\* the retry branch with the request released for the time of the backoff
retryAfterBackoffReleasing(c, classifiedError) ==
  /\ calls' = [calls EXCEPT ![c].pc = "sleeping",
                            ![c].error = classifiedError,
                            ![c].wakeAt = now + classifiedError.backoffMs]
  /\ pendingExecutions' = pendingExecutions \ {calls[c].id}
  /\ UNCHANGED <<executionHistory, cacheTimers, rateLimits, lastReturn>>

\* The catch branch that retries: sleep(backoffMs) inside the try block
retryAfterBackoff(c, classifiedError) ==
  /\ calls' = [calls EXCEPT ![c].pc = "sleeping",
                            ![c].error = classifiedError,
                            ![c].wakeAt = now + classifiedError.backoffMs]
  /\ UNCHANGED <<executionHistory, cacheTimers, rateLimits, pendingExecutions,
                 lastReturn>>

\* ---- safeExecute: the call, up to its first await ----
safeExecute(c, id, type, userId) ==
  LET request == [NewCall EXCEPT !.id = id, !.type = type, !.userId = userId]
      rateLimitCheck == checkRateLimit(type, userId)
      cleaned == [rateLimits EXCEPT ![<<type, userId>>] = cleanRequests(type, userId)]
      cached == getCachedResult(id)
  IN IF id \in pendingExecutions
       THEN /\ returns(c, request, DuplicateResult)
            /\ UNCHANGED <<executionHistory, cacheTimers, rateLimits, pendingExecutions>>
     ELSE IF ~rateLimitCheck.allowed
       THEN /\ returns(c, request, RateLimitResult(rateLimitCheck.retryAfterMs))
            /\ rateLimits' = cleaned
            /\ UNCHANGED <<executionHistory, cacheTimers, pendingExecutions>>
     ELSE IF cached.present
       THEN /\ returns(c, request, [cached.result EXCEPT !.cached = TRUE])
            /\ rateLimits' = cleaned
            /\ UNCHANGED <<executionHistory, cacheTimers, pendingExecutions>>
     ELSE /\ executeWithRetry(c, request, cleaned)
          /\ UNCHANGED <<executionHistory, cacheTimers>>

\* ---- the operation settles ----
operationResolves(c, value) ==
  frameReturns(c, SuccessResult(value), SuccessTtlMs)

\* the catch block caching a failure with cacheResult's default TTL
operationThrowsDefaultTtl(c, error) ==
  LET classifiedError == classifyError(error)
  IN IF classifiedError.retryable /\ calls[c].retryCount < MaxRetries
       THEN retryAfterBackoff(c, classifiedError)
       ELSE frameReturns(c, FailureResult(classifiedError), SuccessTtlMs)

\* the catch block retrying once more than MaxRetries
operationThrowsOnceMore(c, error) ==
  LET classifiedError == classifyError(error)
  IN IF classifiedError.retryable /\ calls[c].retryCount <= MaxRetries
       THEN retryAfterBackoff(c, classifiedError)
       ELSE frameReturns(c, FailureResult(classifiedError), FailureTtlMs)

operationThrows(c, error) ==
  LET classifiedError == classifyError(error)
  IN IF classifiedError.retryable /\ calls[c].retryCount < MaxRetries
       THEN retryAfterBackoff(c, classifiedError)
       ELSE frameReturns(c, FailureResult(classifiedError), FailureTtlMs)

\* sleep() is over: the recursive executeWithRetry call
retry(c) ==
  /\ executeWithRetry(c, [calls[c] EXCEPT !.retryCount = @ + 1], rateLimits)
  /\ UNCHANGED <<executionHistory, cacheTimers>>

\* the finally block of an enclosing frame, run when the inner call has returned
finallyOfOuterFrame(c) ==
  /\ pendingExecutions' = pendingExecutions \ {calls[c].id}
  /\ IF calls[c].frames = 1
       THEN returns(c, calls[c], calls[c].result)
       ELSE /\ calls' = [calls EXCEPT ![c].frames = @ - 1]
            /\ UNCHANGED lastReturn
  /\ UNCHANGED <<executionHistory, cacheTimers, rateLimits>>

\* the setTimeout callback of cacheResult
cacheTimerFires(timer) ==
  /\ executionHistory' = [executionHistory EXCEPT ![timer.id] = NoEntry]
  /\ cacheTimers' = cacheTimers \ {timer}
  /\ UNCHANGED <<rateLimits, pendingExecutions, calls, lastReturn>>

\* ---- actions of the Execution Safety specification ----
\* Promise continuations (microtasks) run before any timer callback
microtasksQueued == \E c \in CallIds : calls[c].pc = "unwinding"

\* the times at which an armed timer is due
dueTimes == {t.at : t \in cacheTimers} \cup
            {calls[c].wakeAt : c \in {d \in CallIds : calls[d].pc = "sleeping"}}

ExecTickSteps == {60000}

\* Time passes, up to the next due timer at most
ExecTick ==
  /\ ticks < MaxExecTicks
  /\ ~microtasksQueued
  /\ \E d \in ExecTickSteps \cup {t - now : t \in dueTimes} :
       /\ d > 0
       /\ \A t \in dueTimes : now + d <= t
       /\ now' = now + d
  /\ ticks' = ticks + 1
  /\ UNCHANGED <<limVars, exVars, trVars, idVars>>

\* Time passes until the next armed timer is due
AdvanceToDue ==
  /\ ~microtasksQueued
  /\ dueTimes # {}
  /\ \A t \in dueTimes : now < t
  /\ now' = SetMin(dueTimes)
  /\ UNCHANGED <<ticks, limVars, exVars, trVars, idVars>>

SafeExecute ==
  /\ \E c \in CallIds :
       /\ calls[c].pc = "new"
       /\ \A b \in CallIds : b < c => calls[b].pc # "new"
       /\ \E id \in RequestIds, type \in ActionTypes, userId \in UserIds :
            safeExecute(c, id, type, userId)
  /\ UNCHANGED <<clockVars, limVars, trVars, idVars>>

OperationResolves ==
  /\ \E c \in CallIds :
       /\ calls[c].pc = "running"
       /\ operationResolves(c, "ok")
  /\ UNCHANGED <<clockVars, limVars, trVars, idVars>>

\* the operation throws one of the two commonest errors (one retried, one not)
OperationThrows ==
  /\ \E c \in CallIds :
       /\ calls[c].pc = "running"
       /\ \E error \in CommonErrors : operationThrows(c, error)
  /\ UNCHANGED <<clockVars, limVars, trVars, idVars>>

\* the operation throws any error
OperationThrowsAny ==
  /\ \E c \in CallIds :
       /\ calls[c].pc = "running"
       /\ \E error \in ErrorInputs : operationThrows(c, error)
  /\ UNCHANGED <<clockVars, limVars, trVars, idVars>>

\* the first safeExecute call of the process
SafeExecuteFirst ==
  /\ calls[1].pc = "new"
  /\ \E id \in RequestIds, type \in ActionTypes, userId \in UserIds :
       safeExecute(1, id, type, userId)
  /\ UNCHANGED <<clockVars, limVars, trVars, idVars>>

Retry ==
  /\ ~microtasksQueued
  /\ \E c \in CallIds :
       /\ calls[c].pc = "sleeping"
       /\ calls[c].wakeAt <= now
       /\ retry(c)
  /\ UNCHANGED <<clockVars, limVars, trVars, idVars>>

FinallyOfOuterFrame ==
  /\ \E c \in CallIds :
       /\ calls[c].pc = "unwinding"
       /\ finallyOfOuterFrame(c)
  /\ UNCHANGED <<clockVars, limVars, trVars, idVars>>

CacheTimerFires ==
  /\ ~microtasksQueued
  /\ \E timer \in cacheTimers :
       /\ timer.at <= now
       /\ cacheTimerFires(timer)
  /\ UNCHANGED <<clockVars, limVars, trVars, idVars>>

\* ---- generateRequestId ----
\* A string is the sequence of its UTF-16 code units
charCodeAt(c) ==
  CASE c = "{" -> 123 [] c = "}" -> 125 [] c = "\"" -> 34 [] c = ":" -> 58
    [] c = "," -> 44 [] c = "a" -> 97 [] c = "b" -> 98
    [] c = "1" -> 49 [] c = "2" -> 50

\* params objects: the properties in insertion order
ParamInputs ==
  { <<[key |-> "a", value |-> "1"], [key |-> "b", value |-> "2"]>>,
    <<[key |-> "b", value |-> "2"], [key |-> "a", value |-> "1"]>>,
    <<[key |-> "a", value |-> "2"], [key |-> "b", value |-> "1"]>>,
    <<[key |-> "a", value |-> "1"]>> }
IdTypes == {"trade", "polymarket_bet"}

\* Object.keys(params).sort()
RECURSIVE insertKey(_, _)
insertKey(k, sorted) ==
  IF sorted = <<>> THEN <<k>>
  ELSE IF charCodeAt(Head(sorted)) <= charCodeAt(k)
       THEN <<Head(sorted)>> \o insertKey(k, Tail(sorted))
       ELSE <<k>> \o sorted

RECURSIVE sortKeys(_)
sortKeys(params) ==
  IF params = <<>> THEN <<>>
  ELSE insertKey(Head(params).key, sortKeys(Tail(params)))

valueOf(params, k) ==
  (CHOOSE p \in {params[i] : i \in DOMAIN params} : p.key = k).value

\* JSON.stringify(params, keys): the listed properties, in the order of keys
RECURSIVE stringifyProperties(_, _)
stringifyProperties(params, keys) ==
  IF keys = <<>> THEN <<>>
  ELSE <<"\"", Head(keys), "\"", ":", valueOf(params, Head(keys))>>
       \o (IF Len(keys) > 1 THEN <<",">> ELSE <<>>)
       \o stringifyProperties(params, Tail(keys))

stringify(params, keys) == <<"{">> \o stringifyProperties(params, keys) \o <<"}">>

\* simpleHash: a 32-bit integer kept as its two 16-bit halves
Half == 65536
hashStep(hash, char) ==
  LET lo == hash.lo * 31 + char
  IN  [hi |-> (hash.hi * 31 + lo \div Half) % Half, lo |-> lo % Half]

RECURSIVE hashFrom(_, _)
hashFrom(hash, str) ==
  IF str = <<>> THEN hash
  ELSE hashFrom(hashStep(hash, charCodeAt(Head(str))), Tail(str))

\* Math.abs of the signed 32-bit value
absInt32(hash) ==
  IF hash.hi < Half \div 2 THEN hash
  ELSE [hi |-> (Half - 1 - hash.hi + (IF hash.lo = 0 THEN 1 ELSE 0)) % Half,
        lo |-> (Half - hash.lo) % Half]

simpleHash(str) == absInt32(hashFrom([hi |-> 0, lo |-> 0], str))

\* `${type}_${Date.now()}_${hash}`
generateRequestId(type, params) ==
  [type |-> type, at |-> now, hash |-> simpleHash(stringify(params, sortKeys(params)))]

MaxIds == 3

GenerateRequestId ==
  /\ Cardinality(requestIds) < MaxIds
  /\ \E type \in IdTypes, params \in ParamInputs :
       requestIds' = requestIds \cup
         {[type |-> type, params |-> params, id |-> generateRequestId(type, params)]}
  /\ UNCHANGED <<clockVars, limVars, exVars, trVars>>

IdTickSteps == {1, 60000}

IdTick ==
  /\ ticks < MaxExecTicks
  /\ \E d \in IdTickSteps : now' = now + d
  /\ ticks' = ticks + 1
  /\ UNCHANGED <<limVars, exVars, trVars, idVars>>

\* ========================================================================
\* The store (memory.ts)
\* ========================================================================
\* An optional field of an entry: absent, or set to a value
None == [set |-> FALSE, v |-> 0]
Some(x) == [set |-> TRUE, v |-> x]

\* A JavaScript number: NaN, or a value.  Prices are held in cents, and
\* percentages in hundredths of a percent, so that the string toFixed(2)
\* makes of a percentage is held as the number of hundredths it spells.
NaN == [nan |-> TRUE, v |-> 0]
Num(x) == [nan |-> FALSE, v |-> x]

DefaultTakeProfitPct == 100
DefaultStopLossPct == 30
DefaultScanIntervalMin == 30
DefaultMaxOpenPositions == 5

DEFAULT_MEMORY ==
  [trades |-> <<>>,
   lastScanTime |-> 0,
   totalTrades |-> 0,
   winRate |-> [wins |-> 0, closed |-> 0],
   totalPnl |-> 0,
   polymarketTrades |-> <<>>,
   polymarketLearnings |-> 0,
   polymarketStats |-> [totalBets |-> 0, wins |-> 0, losses |-> 0],
   tokens |-> [s \in {} |-> 0],
   settings |-> [takeProfitPct |-> DefaultTakeProfitPct,
                 stopLossPct |-> DefaultStopLossPct,
                 scanIntervalMin |-> DefaultScanIntervalMin,
                 autoTradeEnabled |-> FALSE,
                 maxOpenPositions |-> DefaultMaxOpenPositions]]

\* parseFloat on the strings that stand in a price field
parseFloat(s) ==
  CASE s = "1.00" -> Num(100)
    [] s = "2.00" -> Num(200)
    [] s = "$0.001" -> NaN
    [] s = "" -> NaN

\* currentPrice.match(/\$?([\d.]+)/), then parseFloat of the group, or 0
matchPrice(response) ==
  CASE response = "$2.10" -> 210
    [] response = "1.00" -> 100
    [] response = "$0.50" -> 50
    [] response = "unavailable" -> 0

\* parseInt on the strings that stand in the score field of a research line
parseInt(s) ==
  CASE s = "80" -> Num(80)
    [] s = "65" -> Num(65)
    [] s = "40" -> Num(40)
    [] s = "SCORE" -> NaN

\* the ids executeBuy makes are distinct; an entry's id is its place in trades
TradeEntry(id, token, status) ==
  [id |-> id, symbol |-> token.symbol, price |-> token.price, status |-> status,
   pnl |-> None, exitPrice |-> None, exitTimestamp |-> None]

\* saveMemory writing the defaults
saveMemorySkipped(m) == DEFAULT_MEMORY

\* saveMemory: the document written is the whole aggregate
saveMemory(m) == m

\* the file loadMemory read at construction: none when the defaults were taken
NoDocument == [missing |-> TRUE]
documentOf(m) == IF m = DEFAULT_MEMORY THEN NoDocument ELSE m

logTrade(m, trade) ==
  [m EXCEPT !.trades = Append(@, trade), !.totalTrades = @ + 1]

closeTradeKeepingStatus(m, tradeId, exitPrice, pnl) ==
  LET found == {i \in DOMAIN m.trades : m.trades[i].id = tradeId}
  IN  IF found = {} THEN m
      ELSE LET i == CHOOSE k \in found : \A l \in found : k <= l
           IN  [m EXCEPT !.trades[i].exitPrice = Some(exitPrice),
                         !.trades[i].exitTimestamp = Some(now),
                         !.trades[i].pnl = Some(pnl),
                         !.totalPnl = @ + pnl]

\* closeTrade counting a break-even close as a win
closeTradeCountingBreakEven(m, tradeId, exitPrice, pnl) ==
  LET found == {i \in DOMAIN m.trades : m.trades[i].id = tradeId}
  IN  IF found = {} THEN m
      ELSE LET i == CHOOSE k \in found : \A l \in found : k <= l
               trades2 == [m.trades EXCEPT ![i].status = "closed",
                                           ![i].exitPrice = Some(exitPrice),
                                           ![i].exitTimestamp = Some(now),
                                           ![i].pnl = Some(pnl)]
               closedTrades == {k \in DOMAIN trades2 : trades2[k].status = "closed"}
               wins == {k \in closedTrades : trades2[k].pnl.v >= 0}
           IN  [m EXCEPT !.trades = trades2,
                         !.totalPnl = @ + pnl,
                         !.winRate = [wins |-> Cardinality(wins),
                                      closed |-> Cardinality(closedTrades)]]

closeTrade(m, tradeId, exitPrice, pnl) ==
  LET found == {i \in DOMAIN m.trades : m.trades[i].id = tradeId}
  IN  IF found = {} THEN m
      ELSE LET i == CHOOSE k \in found : \A l \in found : k <= l
               trades2 == [m.trades EXCEPT ![i].status = "closed",
                                           ![i].exitPrice = Some(exitPrice),
                                           ![i].exitTimestamp = Some(now),
                                           ![i].pnl = Some(pnl)]
               closedTrades == {k \in DOMAIN trades2 : trades2[k].status = "closed"}
               wins == {k \in closedTrades : trades2[k].pnl.v > 0}
           IN  [m EXCEPT !.trades = trades2,
                         !.totalPnl = @ + pnl,
                         !.winRate = [wins |-> Cardinality(wins),
                                      closed |-> Cardinality(closedTrades)]]

getOpenPositions(m) == SelectSeq(m.trades, LAMBDA t : t.status = "open")

\* ========================================================================
\* AutonomousTrader (autonomous.ts)
\* ========================================================================
NoHandle == 0
NoStrategy == "null"
MonitorMs == 300000
ViableScore == 60

Request(from, kind, symbol) == [from |-> from, kind |-> kind, symbol |-> symbol]

IdleScan == [pc |-> "idle", candidates |-> <<>>, toBuy |-> <<>>, i |-> 0]
IdleMonitor ==
  [pc |-> "idle", open |-> <<>>, j |-> 0, current |-> 0, sells |-> 0, closes |-> 0]
NoTraderReturn == [op |-> "none", value |-> "none"]

TraderInit ==
  /\ isScanning = FALSE
  /\ isMonitoring = FALSE
  /\ scan = IdleScan
  /\ mon = IdleMonitor
  /\ outbox = {}
  /\ traderReturn = NoTraderReturn
  /\ scanTimer = NoHandle
  /\ monitorTimer = NoHandle
  /\ polymarketTimer = NoHandle
  /\ timers = {}
  /\ handles = 0
  /\ polymarketStrategy = NoStrategy
  /\ lastLifecycle = "constructed"

\* ---- what the collaborators answer ----
Outcomes == {"success", "failure", "throws"}
NotifyOutcomes == {"resolves", "rejects"}

\* the research answer, already split into lines and "|"-separated, trimmed parts
LineAAA == <<"65", "AAA", "1.00", "$35k", "$1200", "+15%", "some momentum">>
LineBBB == <<"80", "BBB", "$0.001", "20000", "$900", "+5%", "strong volume">>
LineDEAD == <<"40", "DEAD", "1.00", "$5k", "$50", "-80%", "dying">>
LineHeader == <<"SCORE", "symbol", "price", "marketcap", "volume", "change", "reason">>
LineProse == <<"Here are the scores:">>
ResearchTexts ==
  {<<LineProse, LineAAA, LineBBB>>, <<LineHeader, LineDEAD, LineAAA>>, <<LineProse>>}
PriceTexts == {"$2.10", "1.00", "$0.50", "unavailable"}

\* ---- researchCandidates: parsing and ranking ----
RECURSIVE parseLines(_)
parseLines(lines) ==
  IF lines = <<>> THEN <<>>
  ELSE LET parts == Head(lines)
           rest == parseLines(Tail(lines))
       IN  IF Len(parts) >= 7 /\ ~parseInt(parts[1]).nan
           THEN <<[symbol |-> parts[2], price |-> parts[3],
                   score |-> parseInt(parts[1]).v]>> \o rest
           ELSE rest

\* candidates.sort((a, b) => b.score - a.score): stable, highest score first
RECURSIVE insertByScore(_, _)
insertByScore(c, sorted) ==
  IF sorted = <<>> THEN <<c>>
  ELSE IF Head(sorted).score >= c.score
       THEN <<Head(sorted)>> \o insertByScore(c, Tail(sorted))
       ELSE <<c>> \o sorted

sortKeepingOrder(cs) == cs

RECURSIVE sortByScore(_)
sortByScore(cs) ==
  IF cs = <<>> THEN <<>>
  ELSE insertByScore(cs[Len(cs)], sortByScore(SubSeq(cs, 1, Len(cs) - 1)))

researchCandidates(r) ==
  IF r.outcome = "success" THEN sortByScore(parseLines(r.response)) ELSE <<>>

sliceAll(s, n) == s

slice(s, n) == SubSeq(s, 1, IF n < Len(s) THEN n ELSE Len(s))

\* ---- scanMarket ----
scanReturnsKeepingFlag(value) ==
  /\ isScanning' = (value = "Scan failed")
  /\ scan' = IdleScan
  /\ traderReturn' = [op |-> "scanMarket", value |-> value]

scanReturns(value) ==
  /\ isScanning' = FALSE
  /\ scan' = IdleScan
  /\ traderReturn' = [op |-> "scanMarket", value |-> value]

\* the call, up to its first await
scanMarket ==
  IF isScanning
  THEN /\ traderReturn' = [op |-> "scanMarket", value |-> "Scan already in progress..."]
       /\ UNCHANGED <<isScanning, scan, outbox, memory, disk>>
  ELSE /\ isScanning' = TRUE
       /\ scan' = [IdleScan EXCEPT !.pc = "find"]
       /\ outbox' = outbox \cup {Request("scan", "find", "")}
       /\ UNCHANGED <<memory, disk, traderReturn>>

findAnswered(r) ==
  LET req == Request("scan", "find", "")
  IN  /\ scan.pc = "find"
      /\ CASE r = "throws" ->
                /\ scanReturns("Scan error")
                /\ outbox' = outbox \ {req}
                /\ UNCHANGED <<memory, disk>>
           [] r = "failure" ->
                /\ scanReturns("Scan failed")
                /\ outbox' = outbox \ {req}
                /\ UNCHANGED <<memory, disk>>
           [] r = "success" ->
                /\ memory' = [memory EXCEPT !.lastScanTime = now]
                /\ disk' = saveMemory(memory')
                /\ scan' = [scan EXCEPT !.pc = "research"]
                /\ outbox' = (outbox \ {req}) \cup {Request("scan", "research", "")}
                /\ UNCHANGED <<isScanning, traderReturn>>

\* executeBuy, up to its await
executeBuy(token) == Request("scan", "buy", token.symbol)

researchAnswered(r) ==
  LET req == Request("scan", "research", "")
      candidates == researchCandidates(r)
      viable == SelectSeq(candidates, LAMBDA c : c.score >= ViableScore)
      slotsAvailable == memory.settings.maxOpenPositions - Len(getOpenPositions(memory))
      toBuy == slice(viable, slotsAvailable)
  IN  /\ scan.pc = "research"
      /\ UNCHANGED <<memory, disk>>
      /\ IF r.outcome = "throws"
         THEN /\ scanReturns("Scan error")
              /\ outbox' = outbox \ {req}
         ELSE IF Len(candidates) = 0
         THEN /\ scanReturns("No viable candidates found")
              /\ outbox' = outbox \ {req}
         ELSE IF memory.settings.autoTradeEnabled /\ Len(viable) > 0 /\ slotsAvailable > 0
         THEN /\ scan' = [pc |-> "buy", candidates |-> candidates, toBuy |-> toBuy, i |-> 1]
              /\ outbox' = (outbox \ {req}) \cup {executeBuy(toBuy[1])}
              /\ UNCHANGED <<isScanning, traderReturn>>
         ELSE /\ scan' = [scan EXCEPT !.pc = "notify", !.candidates = candidates]
              /\ outbox' = (outbox \ {req}) \cup {Request("scan", "notify", "")}
              /\ UNCHANGED <<isScanning, traderReturn>>

\* the rest of executeBuy, and the loop over toBuy up to the next await
buyAnswered(r) ==
  LET token == scan.toBuy[scan.i]
      req == executeBuy(token)
      trade == TradeEntry(Len(memory.trades) + 1, token,
                          IF r = "success" THEN "open" ELSE "failed")
  IN  /\ scan.pc = "buy"
      /\ memory' = IF r = "throws" THEN memory ELSE logTrade(memory, trade)
      /\ disk' = IF r = "throws" THEN disk ELSE saveMemory(memory')
      /\ IF scan.i < Len(scan.toBuy)
         THEN /\ scan' = [scan EXCEPT !.i = @ + 1]
              /\ outbox' = (outbox \ {req}) \cup {executeBuy(scan.toBuy[scan.i + 1])}
         ELSE /\ scan' = [scan EXCEPT !.pc = "notify"]
              /\ outbox' = (outbox \ {req}) \cup {Request("scan", "notify", "")}
      /\ UNCHANGED <<isScanning, traderReturn>>

scanNotifySettled(r) ==
  /\ scan.pc = "notify"
  /\ outbox' = outbox \ {Request("scan", "notify", "")}
  /\ scanReturns(IF r = "resolves" THEN "report" ELSE "Scan error")
  /\ UNCHANGED <<memory, disk>>

\* ---- monitorPositions ----
monitorReturns ==
  /\ isMonitoring' = FALSE
  /\ mon' = IdleMonitor
  /\ traderReturn' = [op |-> "monitorPositions", value |-> "undefined"]

priceOf(trade) == Request("monitor", "price", trade.symbol)

\* the call, up to its first await
monitorPositions ==
  LET openPositions == getOpenPositions(memory)
  IN  IF isMonitoring
      THEN /\ traderReturn' = [op |-> "monitorPositions", value |-> "undefined"]
           /\ UNCHANGED <<isMonitoring, mon, outbox, memory, disk>>
      ELSE IF Len(openPositions) = 0
      THEN /\ monitorReturns
           /\ UNCHANGED <<outbox, memory, disk>>
      ELSE /\ isMonitoring' = TRUE
           /\ mon' = [IdleMonitor EXCEPT !.pc = "price", !.j = 1,
                        !.open = [k \in DOMAIN openPositions |-> openPositions[k].id]]
           /\ outbox' = outbox \cup {priceOf(openPositions[1])}
           /\ UNCHANGED <<memory, disk, traderReturn>>

\* the entry the loop variable `trade` refers to
monitored == memory.trades[mon.open[mon.j]]

\* the next iteration of the loop, or the end of the cycle
nextPosition(done) ==
  IF mon.j < Len(mon.open)
  THEN /\ mon' = [mon EXCEPT !.pc = "price", !.j = @ + 1, !.current = 0,
                             !.sells = 0, !.closes = 0]
       /\ outbox' = (outbox \ done) \cup {priceOf(memory.trades[mon.open[mon.j + 1]])}
       /\ UNCHANGED <<isMonitoring, traderReturn>>
  ELSE /\ monitorReturns
       /\ outbox' = outbox \ done

pause(done) ==
  /\ mon' = [mon EXCEPT !.pc = "pause"]
  /\ outbox' = outbox \ done
  /\ UNCHANGED <<isMonitoring, traderReturn>>

\* pnlPct, in hundredths of a percent
pnlPct(current) ==
  LET entryPrice == parseFloat(monitored.price)
  IN  IF entryPrice.nan THEN NaN
      ELSE Num(((current - entryPrice.v) * 10000) \div entryPrice.v)

takeProfitHit(pnl) == ~pnl.nan /\ pnl.v >= memory.settings.takeProfitPct * 100
stopLossHit(pnl) == ~pnl.nan /\ pnl.v <= -(memory.settings.stopLossPct * 100)

sell(kind, done, current) ==
  /\ mon' = [mon EXCEPT !.pc = kind, !.current = current, !.sells = @ + 1]
  /\ outbox' = (outbox \ done) \cup {Request("monitor", kind, monitored.symbol)}
  /\ UNCHANGED <<isMonitoring, traderReturn>>

\* the second `if` of the loop body
stopLossCheck(done) ==
  IF stopLossHit(pnlPct(mon.current))
  THEN sell("sellSL", done, mon.current)
  ELSE pause(done)

priceAnswered(r) ==
  LET req == priceOf(monitored)
      current == matchPrice(r.response)
      entryPrice == parseFloat(monitored.price)
  IN  /\ mon.pc = "price"
      /\ UNCHANGED <<memory, disk>>
      /\ IF r.outcome = "throws" THEN pause({req})
         ELSE IF r.outcome = "failure" THEN nextPosition({req})
         ELSE IF (~entryPrice.nan /\ entryPrice.v = 0) \/ current = 0
         THEN nextPosition({req})
         ELSE IF takeProfitHit(pnlPct(current)) THEN sell("sellTP", {req}, current)
         ELSE IF stopLossHit(pnlPct(current)) THEN sell("sellSL", {req}, current)
         ELSE pause({req})

closing(kind, req) ==
  /\ memory' = closeTrade(memory, monitored.id, mon.current, pnlPct(mon.current).v)
  /\ disk' = saveMemory(memory')
  /\ mon' = [mon EXCEPT !.pc = kind, !.closes = @ + 1]
  /\ outbox' = (outbox \ {req}) \cup {Request("monitor", kind, monitored.symbol)}
  /\ UNCHANGED <<isMonitoring, traderReturn>>

sellTPAnswered(r) ==
  LET req == Request("monitor", "sellTP", monitored.symbol)
  IN  /\ mon.pc = "sellTP"
      /\ CASE r = "throws" -> pause({req}) /\ UNCHANGED <<memory, disk>>
           [] r = "success" -> closing("notifyTP", req)
           [] r = "failure" -> stopLossCheck({req}) /\ UNCHANGED <<memory, disk>>

tpNotifySettled(r) ==
  LET req == Request("monitor", "notifyTP", monitored.symbol)
  IN  /\ mon.pc = "notifyTP"
      /\ UNCHANGED <<memory, disk>>
      /\ IF r = "rejects" THEN pause({req}) ELSE stopLossCheck({req})

sellSLAnswered(r) ==
  LET req == Request("monitor", "sellSL", monitored.symbol)
  IN  /\ mon.pc = "sellSL"
      /\ CASE r = "throws" -> pause({req}) /\ UNCHANGED <<memory, disk>>
           [] r = "success" -> closing("notifySL", req)
           [] r = "failure" -> pause({req}) /\ UNCHANGED <<memory, disk>>

slNotifySettled(r) ==
  /\ mon.pc = "notifySL"
  /\ UNCHANGED <<memory, disk>>
  /\ pause({Request("monitor", "notifySL", monitored.symbol)})

\* the 3 s timer at the end of the loop body fires
pauseOver ==
  /\ mon.pc = "pause"
  /\ UNCHANGED <<memory, disk>>
  /\ nextPosition({})

\* ---- start / stop / settings ----
setInterval(kind, ms, handle) == [handle |-> handle, kind |-> kind, ms |-> ms]
clearInterval(armed, hs) == {t \in armed : t.handle \notin hs}

start ==
  /\ scanTimer' = handles + 1
  /\ monitorTimer' = handles + 2
  /\ handles' = handles + 2
  /\ timers' = timers \cup
       {setInterval("scan", memory.settings.scanIntervalMin * MsPerMinute, handles + 1),
        setInterval("monitor", MonitorMs, handles + 2)}
  /\ lastLifecycle' = "start"
  /\ UNCHANGED <<polymarketTimer, polymarketStrategy>>

stop ==
  /\ timers' = clearInterval(timers, {scanTimer, monitorTimer, polymarketTimer})
  /\ polymarketStrategy' = NoStrategy
  /\ lastLifecycle' = "stop"
  /\ UNCHANGED <<scanTimer, monitorTimer, polymarketTimer, handles>>

setPolymarketStrategy(strategy) ==
  /\ polymarketStrategy' = strategy
  /\ UNCHANGED <<scanTimer, monitorTimer, polymarketTimer, timers, handles,
                 lastLifecycle>>

assign(settings, updates) ==
  [k \in DOMAIN settings |-> IF k \in DOMAIN updates THEN updates[k] ELSE settings[k]]

updateSettings(updates) ==
  /\ memory' = [memory EXCEPT !.settings = assign(@, updates)]
  /\ disk' = saveMemory(memory')
  /\ IF /\ "scanIntervalMin" \in DOMAIN updates
        /\ updates["scanIntervalMin"] # 0
        /\ scanTimer # NoHandle
     THEN /\ timers' = clearInterval(timers, {scanTimer}) \cup
               {setInterval("scan", updates["scanIntervalMin"] * MsPerMinute,
                            handles + 1)}
          /\ scanTimer' = handles + 1
          /\ handles' = handles + 1
     ELSE UNCHANGED <<timers, scanTimer, handles>>
  /\ UNCHANGED <<monitorTimer, polymarketTimer, polymarketStrategy, lastLifecycle>>

toggleAutoTrade(enabled) ==
  /\ memory' = [memory EXCEPT !.settings.autoTradeEnabled = enabled]
  /\ disk' = saveMemory(memory')

\* ---- the steps of the trader ----
lifecycleVars == <<scanTimer, monitorTimer, polymarketTimer, timers, handles,
                   polymarketStrategy, lastLifecycle>>
cycleVars == <<isScanning, isMonitoring, scan, mon, outbox, traderReturn>>
scanVars == <<isScanning, scan>>
monVars == <<isMonitoring, mon>>
otherVars == <<clockVars, limVars, exVars, pm, cachedPolygonBalance,
               balanceCacheTimestamp, idVars>>

ScanMarket ==
  /\ isScanning \/ Len(memory.trades) < MaxTrades
  /\ scanMarket
  /\ UNCHANGED <<monVars, lifecycleVars, otherVars>>

FindAnswered ==
  /\ \E r \in Outcomes : findAnswered(r)
  /\ UNCHANGED <<monVars, lifecycleVars, otherVars>>

FindUnavailable ==
  /\ findAnswered("failure")
  /\ UNCHANGED <<monVars, lifecycleVars, otherVars>>

ResearchAnswered ==
  /\ \E r \in [outcome : {"success"}, response : ResearchTexts]
              \cup [outcome : {"failure", "throws"}, response : {<<>>}] :
       researchAnswered(r)
  /\ UNCHANGED <<monVars, lifecycleVars, otherVars>>

BuyAnswered ==
  /\ \E r \in Outcomes : buyAnswered(r)
  /\ UNCHANGED <<monVars, lifecycleVars, otherVars>>

ScanNotifySettled ==
  /\ \E r \in NotifyOutcomes : scanNotifySettled(r)
  /\ UNCHANGED <<monVars, lifecycleVars, otherVars>>

MonitorPositions ==
  /\ monitorPositions
  /\ UNCHANGED <<scanVars, lifecycleVars, otherVars>>

PriceAnswered ==
  /\ \E r \in [outcome : {"success"}, response : PriceTexts]
              \cup [outcome : {"failure", "throws"}, response : {""}] :
       priceAnswered(r)
  /\ UNCHANGED <<scanVars, lifecycleVars, otherVars>>

SellTPAnswered ==
  /\ \E r \in Outcomes : sellTPAnswered(r)
  /\ UNCHANGED <<scanVars, lifecycleVars, otherVars>>

TPNotifySettled ==
  /\ \E r \in NotifyOutcomes : tpNotifySettled(r)
  /\ UNCHANGED <<scanVars, lifecycleVars, otherVars>>

SellSLAnswered ==
  /\ \E r \in Outcomes : sellSLAnswered(r)
  /\ UNCHANGED <<scanVars, lifecycleVars, otherVars>>

SLNotifySettled ==
  /\ \E r \in NotifyOutcomes : slNotifySettled(r)
  /\ UNCHANGED <<scanVars, lifecycleVars, otherVars>>

PauseOver ==
  /\ pauseOver
  /\ UNCHANGED <<scanVars, lifecycleVars, otherVars>>

ExitPatches ==
  {[takeProfitPct |-> 0, stopLossPct |-> 0], [takeProfitPct |-> -60]}
IntervalPatches == {[scanIntervalMin |-> 10], [scanIntervalMin |-> 0]}

UpdateExitSettings ==
  /\ \E updates \in ExitPatches : updateSettings(updates)
  /\ UNCHANGED <<cycleVars, otherVars>>

UpdateIntervalSettings ==
  /\ handles < MaxHandles
  /\ \E updates \in IntervalPatches : updateSettings(updates)
  /\ UNCHANGED <<cycleVars, otherVars>>

ToggleAutoTrade ==
  /\ \E enabled \in BOOLEAN : toggleAutoTrade(enabled)
  /\ UNCHANGED <<cycleVars, lifecycleVars, otherVars>>

Start ==
  /\ handles + 2 <= MaxHandles
  /\ start
  /\ UNCHANGED <<memory, disk, cycleVars, otherVars>>

Stop ==
  /\ stop
  /\ UNCHANGED <<memory, disk, cycleVars, otherVars>>

\* ---- manualResearch ----
\* token.toUpperCase()
toUpperCase(token) ==
  CASE token = "aaa" -> "AAA"
    [] token = "AAA" -> "AAA"
    [] token = "Bbb" -> "BBB"

TokenMemory(symbol) ==
  [symbol |-> symbol, lastResearched |-> 0, researchSummary |-> "", score |-> 50]

\* Object.assign on memory.tokens[symbol], then saveMemory
updateTokenMemory(m, symbol, data) ==
  LET entry == IF symbol \in DOMAIN m.tokens THEN m.tokens[symbol]
               ELSE TokenMemory(symbol)
  IN  [m EXCEPT !.tokens =
         [s \in DOMAIN m.tokens \cup {symbol} |->
            IF s = symbol THEN assign(entry, data) ELSE m.tokens[s]]]

\* what the caller of a trader method sees when its promise rejects
Rejected == "(promise rejected)"

researchOf(token) == Request("manual", "research", token)

\* the call, up to its await
manualResearch(token) ==
  /\ outbox' = outbox \cup {researchOf(token)}
  /\ UNCHANGED <<memory, disk, traderReturn>>

\* the rest of the call; nothing catches what bankrPrompt throws
manualResearchAnswered(token, r) ==
  /\ researchOf(token) \in outbox
  /\ outbox' = outbox \ {researchOf(token)}
  /\ memory' = IF r.outcome = "success"
               THEN updateTokenMemory(memory, toUpperCase(token),
                      [lastResearched |-> now, researchSummary |-> r.response])
               ELSE memory
  /\ disk' = IF r.outcome = "success" THEN saveMemory(memory') ELSE disk
  /\ traderReturn' =
       [op |-> "manualResearch",
        value |-> CASE r.outcome = "throws" -> Rejected
                    [] r.outcome = "failure" -> "Research failed"
                    [] r.outcome = "success" ->
                         IF r.response = "" THEN "No data" ELSE r.response]

TokenInputs == {"aaa", "AAA", "Bbb"}
AnalysisTexts == {"Risk 7/10, score 55", ""}

ManualResearch ==
  /\ \E token \in TokenInputs :
       /\ researchOf(token) \notin outbox
       /\ manualResearch(token)
  /\ UNCHANGED <<scanVars, monVars, lifecycleVars, otherVars>>

ManualResearchAnswered ==
  /\ \E token \in TokenInputs,
        r \in [outcome : {"success"}, response : AnalysisTexts]
              \cup [outcome : {"failure", "throws"}, response : {""}] :
       manualResearchAnswered(token, r)
  /\ UNCHANGED <<scanVars, monVars, lifecycleVars, otherVars>>

StrategyInputs == {"momentum on crypto markets", "protect capital, I can't lose"}

SetPolymarketStrategy ==
  /\ \E strategy \in StrategyInputs : setPolymarketStrategy(strategy)
  /\ UNCHANGED <<memory, disk, cycleVars, otherVars>>

\* the callbacks start() and updateSettings() arm
ScanTimerFires ==
  /\ \E t \in timers : t.kind = "scan"
  /\ isScanning \/ Len(memory.trades) < MaxTrades
  /\ scanMarket
  /\ UNCHANGED <<monVars, lifecycleVars, otherVars>>

MonitorTimerFires ==
  /\ \E t \in timers : t.kind = "monitor"
  /\ monitorPositions
  /\ UNCHANGED <<scanVars, lifecycleVars, otherVars>>

\* ========================================================================
\* The prediction loop (autonomous.ts, scanPolymarket)
\* ========================================================================
\* Dollar amounts of the prediction loop are held in units of 1/2000 dollar,
\* so that 5% of a balance given in whole cents is a whole number of units;
\* a rate is held as a fraction num / den.
Dollar == 2000
BalanceCacheTtlMs == 300000
MinHistoryForRisk == 5
PauseAtLosses == 4
HalveAtLosses == 2
MaxLearnings == 20
DefaultPolygonBalance == 100

Min(a, b) == IF a <= b THEN a ELSE b

\* /life\s+depends|last\s+\$|can'?t\s+lose|protect\s+capital|survive|last\s+\d+/i
\* tested on the strategy; a null strategy is tested as the text "null"
isSurvivalMode(strategy) ==
  CASE strategy = "momentum on crypto markets" -> FALSE
    [] strategy = "protect capital, I can't lose" -> TRUE
    [] strategy = NoStrategy -> FALSE

\* balanceResult.response.match(/(\d+\.?\d*)/), then parseFloat of the group
matchBalance(response) ==
  CASE response = "200" -> [matched |-> TRUE, v |-> 200 * Dollar]
    [] response = "USDC: 15.50" -> [matched |-> TRUE, v |-> (1550 * Dollar) \div 100]
    [] response = "0" -> [matched |-> TRUE, v |-> 0]
    [] response = "no funds found" -> [matched |-> FALSE, v |-> 0]
    [] response = "" -> [matched |-> FALSE, v |-> 0]
BalanceTexts == {"200", "USDC: 15.50", "no funds found"}

\* response.toUpperCase().includes("SKIP:"), response being scanResult.response
\* or "No results"
BetTexts == {"Bet placed: BTC Up at 62%", "SKIP: No clear edge found",
             "Skip: markets are flat", ""}
orNoResults(response) == IF response = "" THEN "No results" ELSE response
isSkip(response) ==
  CASE response = "Bet placed: BTC Up at 62%" -> FALSE
    [] response = "SKIP: No clear edge found" -> TRUE
    [] response = "Skip: markets are flat" -> TRUE
    [] response = "No results" -> FALSE

IdlePoly == [pc |-> "idle", amount |-> 0, response |-> "", calledAt |-> 0]

PolymarketTrade(amount) == [result |-> "pending", amount |-> amount]

RECURSIVE countConsecutiveLosses(_)
countConsecutiveLosses(trades) ==
  IF trades = <<>> THEN 0
  ELSE IF trades[Len(trades)].result = "loss"
       THEN 1 + countConsecutiveLosses(SubSeq(trades, 1, Len(trades) - 1))
       ELSE 0

winRateOf(stats) ==
  IF stats.totalBets > 0 THEN [num |-> stats.wins, den |-> stats.totalBets]
  ELSE [num |-> 1, den |-> 2]

\* riskFactor, in tenths
riskFactorOf(strategy, stats) ==
  LET winRate == winRateOf(stats)
  IN  IF isSurvivalMode(strategy) THEN 5
      ELSE IF 10 * winRate.num > 6 * winRate.den /\ stats.totalBets >= MinHistoryForRisk
      THEN 15
      ELSE IF 10 * winRate.num < 4 * winRate.den /\ stats.totalBets >= MinHistoryForRisk
      THEN 6
      ELSE 10

\* Math.max(0.1, winRate - 0.5)
edgeOf(stats) ==
  LET winRate == winRateOf(stats)
      excess == [num |-> 2 * winRate.num - winRate.den, den |-> 2 * winRate.den]
  IN  IF 10 * excess.num > excess.den THEN excess ELSE [num |-> 1, den |-> 10]

perTradeAmountUncapped(polygonBalance, strategy, stats) ==
  LET edge == edgeOf(stats)
      wholeDollars == (polygonBalance * edge.num * riskFactorOf(strategy, stats))
                        \div (Dollar * edge.den * 10)
  IN  Max(Dollar, wholeDollars * Dollar)

perTradeAmount(polygonBalance, strategy, stats) ==
  LET edge == edgeOf(stats)
      wholeDollars == (polygonBalance * edge.num * riskFactorOf(strategy, stats))
                        \div (Dollar * edge.den * 10)
  IN  Max(Dollar, Min(wholeDollars * Dollar, polygonBalance \div 20))

adjustedAmount(polygonBalance, strategy, m) ==
  LET amount == perTradeAmount(polygonBalance, strategy, m.polymarketStats)
  IN  IF countConsecutiveLosses(m.polymarketTrades) >= HalveAtLosses
      THEN Max(Dollar, (amount \div (2 * Dollar)) * Dollar)
      ELSE amount

polyRequest(kind) == Request("polymarket", kind, "")

polyReturns(value) ==
  /\ pm' = IdlePoly
  /\ traderReturn' = [op |-> "scanPolymarket", value |-> value]

\* from the bet sizing to the next await: the pause notice or the bet prompt
sizeAndBetIgnoringStreak(done, polygonBalance) ==
  /\ pm' = [pm EXCEPT !.pc = "bet",
              !.amount = adjustedAmount(polygonBalance, polymarketStrategy, memory)]
  /\ outbox' = (outbox \ done) \cup {polyRequest("bet")}
  /\ UNCHANGED traderReturn

sizeAndBet(done, polygonBalance) ==
  IF countConsecutiveLosses(memory.polymarketTrades) >= PauseAtLosses
  THEN /\ pm' = [pm EXCEPT !.pc = "paused"]
       /\ outbox' = (outbox \ done) \cup {polyRequest("notifyPaused")}
       /\ UNCHANGED traderReturn
  ELSE /\ pm' = [pm EXCEPT !.pc = "bet",
                   !.amount = adjustedAmount(polygonBalance, polymarketStrategy, memory)]
       /\ outbox' = (outbox \ done) \cup {polyRequest("bet")}
       /\ UNCHANGED traderReturn

scanPolymarketWithoutStrategy ==
  /\ UNCHANGED <<memory, disk, cachedPolygonBalance, balanceCacheTimestamp>>
  /\ IF now - balanceCacheTimestamp > BalanceCacheTtlMs
     THEN /\ pm' = [IdlePoly EXCEPT !.pc = "balance", !.calledAt = now]
          /\ outbox' = outbox \cup {polyRequest("balance")}
          /\ UNCHANGED traderReturn
     ELSE sizeAndBet({}, cachedPolygonBalance)

\* the call, up to its first await
scanPolymarket ==
  IF polymarketStrategy = NoStrategy
  THEN /\ traderReturn' = [op |-> "scanPolymarket", value |-> "No Polymarket strategy set"]
       /\ UNCHANGED <<pm, outbox, memory, disk, cachedPolygonBalance, balanceCacheTimestamp>>
  ELSE /\ UNCHANGED <<memory, disk, cachedPolygonBalance, balanceCacheTimestamp>>
       /\ IF now - balanceCacheTimestamp > BalanceCacheTtlMs
          THEN /\ pm' = [IdlePoly EXCEPT !.pc = "balance", !.calledAt = now]
               /\ outbox' = outbox \cup {polyRequest("balance")}
               /\ UNCHANGED traderReturn
          ELSE sizeAndBet({}, cachedPolygonBalance)

balanceAnswered(r) ==
  LET req == polyRequest("balance")
      balMatch == matchBalance(r.response)
  IN  /\ pm.pc = "balance"
      /\ UNCHANGED <<memory, disk>>
      /\ IF r.outcome = "throws"
         THEN /\ polyReturns("Polymarket scan error")
              /\ outbox' = outbox \ {req}
              /\ UNCHANGED <<cachedPolygonBalance, balanceCacheTimestamp>>
         ELSE IF r.outcome = "success" /\ r.response # "" /\ balMatch.matched
         THEN /\ cachedPolygonBalance' = balMatch.v
              /\ balanceCacheTimestamp' = pm.calledAt
              /\ sizeAndBet({req}, balMatch.v)
         ELSE /\ UNCHANGED <<cachedPolygonBalance, balanceCacheTimestamp>>
              /\ sizeAndBet({req}, cachedPolygonBalance)

pausedNotifySettled(r) ==
  /\ pm.pc = "paused"
  /\ outbox' = outbox \ {polyRequest("notifyPaused")}
  /\ polyReturns(IF r = "resolves"
                 THEN "Skipped: 4+ consecutive losses"
                 ELSE "Polymarket scan error")
  /\ UNCHANGED <<memory, disk>>

\* the trade is logged and refinePolymarketStrategy is begun
betLoggedWithoutCount(response) ==
  /\ memory' = [memory EXCEPT
       !.polymarketTrades = Append(@, PolymarketTrade(pm.amount))]
  /\ disk' = saveMemory(memory')
  /\ pm' = [pm EXCEPT !.pc = "refine", !.response = response]
  /\ outbox' = (outbox \ {polyRequest("bet")}) \cup {polyRequest("refine")}
  /\ UNCHANGED traderReturn

betLogged(response) ==
  /\ memory' = [memory EXCEPT
       !.polymarketTrades = Append(@, PolymarketTrade(pm.amount)),
       !.polymarketStats.totalBets = @ + 1]
  /\ disk' = saveMemory(memory')
  /\ pm' = [pm EXCEPT !.pc = "refine", !.response = response]
  /\ outbox' = (outbox \ {polyRequest("bet")}) \cup {polyRequest("refine")}
  /\ UNCHANGED traderReturn

betAnswered(r) ==
  LET req == polyRequest("bet")
      response == orNoResults(r.response)
  IN  /\ pm.pc = "bet"
      /\ IF r.outcome = "throws"
         THEN /\ polyReturns("Polymarket scan error")
              /\ outbox' = outbox \ {req}
              /\ UNCHANGED <<memory, disk>>
         ELSE IF r.outcome = "failure"
         THEN /\ polyReturns("Polymarket scan failed")
              /\ outbox' = outbox \ {req}
              /\ UNCHANGED <<memory, disk>>
         ELSE IF isSkip(response)
         THEN /\ pm' = [pm EXCEPT !.pc = "skipped", !.response = response]
              /\ outbox' = (outbox \ {req}) \cup {polyRequest("notifySkip")}
              /\ UNCHANGED <<memory, disk, traderReturn>>
         ELSE betLogged(response)

skipNotifySettled(r) ==
  /\ pm.pc = "skipped"
  /\ outbox' = outbox \ {polyRequest("notifySkip")}
  /\ polyReturns(IF r = "resolves" THEN pm.response ELSE "Polymarket scan error")
  /\ UNCHANGED <<memory, disk>>

\* the rest of refinePolymarketStrategy, then the notification of the bet
refineAnswered(r) ==
  /\ pm.pc = "refine"
  /\ memory' = IF r.outcome = "success" /\ r.response # ""
               THEN [memory EXCEPT !.polymarketLearnings = Min(@ + 1, MaxLearnings)]
               ELSE memory
  /\ disk' = IF r.outcome = "success" /\ r.response # ""
             THEN saveMemory(memory') ELSE disk
  /\ pm' = [pm EXCEPT !.pc = "placed"]
  /\ outbox' = (outbox \ {polyRequest("refine")}) \cup {polyRequest("notifyBet")}
  /\ UNCHANGED traderReturn

betNotifySettled(r) ==
  /\ pm.pc = "placed"
  /\ outbox' = outbox \ {polyRequest("notifyBet")}
  /\ polyReturns(IF r = "resolves" THEN pm.response ELSE "Polymarket scan error")
  /\ UNCHANGED <<memory, disk>>

PolyInit ==
  /\ pm = IdlePoly
  /\ cachedPolygonBalance = DefaultPolygonBalance * Dollar
  /\ balanceCacheTimestamp = 0

\* ---- the steps of the prediction loop ----
baseVars == <<clockVars, limVars, exVars, idVars>>
balanceVars == <<cachedPolygonBalance, balanceCacheTimestamp>>

\* (one scanPolymarket call is made at a time)
betsLogged ==
  Cardinality({i \in DOMAIN memory.polymarketTrades :
                 memory.polymarketTrades[i].result = "pending"})

ScanPolymarket ==
  /\ pm.pc = "idle"
  /\ polymarketStrategy = NoStrategy \/ betsLogged < MaxBets
  /\ scanPolymarket
  /\ UNCHANGED <<scanVars, monVars, lifecycleVars, baseVars>>

BalanceAnswered ==
  /\ \E r \in [outcome : {"success"}, response : BalanceTexts]
              \cup [outcome : {"failure", "throws"}, response : {""}] :
       balanceAnswered(r)
  /\ UNCHANGED <<scanVars, monVars, lifecycleVars, baseVars>>

PausedNotifySettled ==
  /\ \E r \in NotifyOutcomes : pausedNotifySettled(r)
  /\ UNCHANGED <<scanVars, monVars, lifecycleVars, baseVars, balanceVars>>

BetAnswered ==
  /\ \E r \in [outcome : {"success"}, response : BetTexts]
              \cup [outcome : {"failure", "throws"}, response : {""}] :
       betAnswered(r)
  /\ UNCHANGED <<scanVars, monVars, lifecycleVars, baseVars, balanceVars>>

SkipNotifySettled ==
  /\ \E r \in NotifyOutcomes : skipNotifySettled(r)
  /\ UNCHANGED <<scanVars, monVars, lifecycleVars, baseVars, balanceVars>>

RefineAnswered ==
  /\ \E r \in [outcome : {"success"}, response : {"Bet on XRP Down instead of Up"}]
              \cup [outcome : {"failure", "throws"}, response : {""}] :
       refineAnswered(r)
  /\ UNCHANGED <<scanVars, monVars, lifecycleVars, baseVars, balanceVars>>

BetNotifySettled ==
  /\ \E r \in NotifyOutcomes : betNotifySettled(r)
  /\ UNCHANGED <<scanVars, monVars, lifecycleVars, baseVars, balanceVars>>

\* more than the balance cache's lifetime passes
PolyTickSteps == {6 * MsPerMinute}
PolyTick ==
  /\ ticks < MaxPolyTicks
  /\ \E d \in PolyTickSteps : now' = now + d
  /\ ticks' = ticks + 1
  /\ UNCHANGED <<limVars, exVars, trVars, idVars>>

\* ========================================================================
\* Specifications
\* ========================================================================
ClockInit ==
  /\ now = 0
  /\ ticks = 0

\* ---- the Risk Guard on its own ----
InitLimits ==
  /\ ClockInit
  /\ LimitsInit
  /\ ExecInit
  /\ TraderInit
  /\ PolyInit
  /\ memory = DEFAULT_MEMORY
  /\ disk = documentOf(memory)

NextLimits ==
  \/ LimitsTick
  \/ CanTrade
  \/ RecordTrade
  \/ ResetKillSwitch

SpecLimits == InitLimits /\ [][NextLimits]_vars

\* ---- the Execution Safety Wrapper on its own ----
\* (the guard is constructed with one configuration and never called)
InitExec ==
  /\ ClockInit
  /\ LimitsInit
  /\ config.maxTradesPerDay = 3
  /\ ExecInit
  /\ TraderInit
  /\ PolyInit
  /\ memory = DEFAULT_MEMORY
  /\ disk = documentOf(memory)

NextExec ==
  \/ ExecTick
  \/ SafeExecute
  \/ OperationResolves
  \/ OperationThrows
  \/ Retry
  \/ FinallyOfOuterFrame
  \/ CacheTimerFires

SpecExec == InitExec /\ [][NextExec]_vars

\* ---- one safeExecute call, its operation throwing any error ----
NextRetry ==
  \/ AdvanceToDue
  \/ SafeExecuteFirst
  \/ OperationResolves
  \/ OperationThrowsAny
  \/ Retry
  \/ FinallyOfOuterFrame
  \/ CacheTimerFires

\* ---- the store functions called directly, in any order ----
MaxStoreTrades == 2
MaxStorePnl == 3000
StoreTokens == {[symbol |-> "AAA", price |-> "1.00"]}
StorePnlInputs == {-500, 0, 1500}

LogTrade ==
  /\ Len(memory.trades) < MaxStoreTrades
  /\ \E token \in StoreTokens, status \in {"open", "failed"} :
       /\ memory' = logTrade(memory, TradeEntry(Len(memory.trades) + 1, token, status))
       /\ disk' = saveMemory(memory')
  /\ UNCHANGED <<cycleVars, lifecycleVars, otherVars>>

CloseTrade ==
  /\ Abs(memory.totalPnl) < MaxStorePnl
  /\ \E tradeId \in 1..(MaxStoreTrades + 1), pnl \in StorePnlInputs :
       /\ memory' = closeTrade(memory, tradeId, 200, pnl)
       /\ disk' = saveMemory(memory')
  /\ UNCHANGED <<cycleVars, lifecycleVars, otherVars>>

NextStore ==
  \/ LogTrade
  \/ CloseTrade

SpecStore == InitExec /\ [][NextStore]_vars

\* ---- callers generating request ids over time ----
NextIds ==
  \/ GenerateRequestId
  \/ IdTick

SpecIds == InitExec /\ [][NextIds]_vars

SpecRetry ==
  /\ InitExec
  /\ [][NextRetry]_vars
  \* timers fire, promise continuations run, and the operation given to
  \* safeExecute settles (resolves or throws)
  /\ WF_vars(AdvanceToDue)
  /\ WF_vars(Retry)
  /\ WF_vars(FinallyOfOuterFrame)
  /\ WF_vars(OperationResolves \/ OperationThrowsAny)

\* ---- the trader's scan and monitor cycles, called by hand ----
\* (AUTO_TRADE may be set or not in the environment)
InitTrader ==
  /\ ClockInit
  /\ LimitsInit
  /\ config.maxTradesPerDay = 3
  /\ ExecInit
  /\ TraderInit
  /\ PolyInit
  /\ \E enabled \in BOOLEAN :
       memory = [DEFAULT_MEMORY EXCEPT !.settings.autoTradeEnabled = enabled]
  /\ disk = documentOf(memory)

NextTrader ==
  \/ ScanMarket
  \/ FindAnswered
  \/ ResearchAnswered
  \/ BuyAnswered
  \/ ScanNotifySettled
  \/ MonitorPositions
  \/ PriceAnswered
  \/ SellTPAnswered
  \/ TPNotifySettled
  \/ SellSLAnswered
  \/ SLNotifySettled
  \/ PauseOver
  \/ UpdateExitSettings
  \/ ToggleAutoTrade

SpecTrader == InitTrader /\ [][NextTrader]_vars

\* ---- start / stop and the timers, the market API being unavailable ----
NextScheduler ==
  \/ Start
  \/ Stop
  \/ UpdateIntervalSettings
  \/ SetPolymarketStrategy
  \/ ScanTimerFires
  \/ MonitorTimerFires
  \/ FindUnavailable

SpecScheduler == InitExec /\ [][NextScheduler]_vars

\* ---- research by hand next to the armed timers, the market API being
\* unavailable to the scanner ----
NextResearch ==
  \/ Start
  \/ ScanTimerFires
  \/ FindUnavailable
  \/ ManualResearch
  \/ ManualResearchAnswered
  \/ PolyTick

SpecResearch == InitExec /\ [][NextResearch]_vars

\* ---- the scan cycle next to a Risk Guard, auto-trade being on ----
LosingPnlInputs == {-60}
RecordLosingTrade ==
  /\ records < MaxRecords
  /\ \E pnlUsd \in LosingPnlInputs, portfolioValue \in PortfolioInputs :
       recordTrade(pnlUsd, portfolioValue)
  /\ UNCHANGED <<clockVars, exVars, trVars, idVars>>

InitGuard ==
  /\ ClockInit
  /\ LimitsInit
  /\ config.maxTradesPerDay = 3
  /\ ExecInit
  /\ TraderInit
  /\ PolyInit
  /\ memory = [DEFAULT_MEMORY EXCEPT !.settings.autoTradeEnabled = TRUE]
  /\ disk = documentOf(memory)

NextGuard ==
  \/ ScanMarket
  \/ FindAnswered
  \/ ResearchAnswered
  \/ BuyAnswered
  \/ ScanNotifySettled
  \/ CanTrade
  \/ RecordLosingTrade
  \/ ResetKillSwitch

SpecGuard == InitGuard /\ [][NextGuard]_vars

\* ---- the scanner and the monitor with few position slots ----
MaxOpenInputs == {1, 2}
MaxSlotTrades == MaxTrades + 1

InitSlots ==
  /\ ClockInit
  /\ LimitsInit
  /\ config.maxTradesPerDay = 3
  /\ ExecInit
  /\ TraderInit
  /\ PolyInit
  /\ \E slots \in MaxOpenInputs :
       memory = [DEFAULT_MEMORY EXCEPT !.settings.autoTradeEnabled = TRUE,
                                       !.settings.maxOpenPositions = slots]
  /\ disk = documentOf(memory)

ScanMarketSlots ==
  /\ isScanning \/ Len(memory.trades) < MaxSlotTrades
  /\ scanMarket
  /\ UNCHANGED <<monVars, lifecycleVars, otherVars>>

NextSlots ==
  \/ ScanMarketSlots
  \/ FindAnswered
  \/ ResearchAnswered
  \/ BuyAnswered
  \/ ScanNotifySettled
  \/ MonitorPositions
  \/ PriceAnswered
  \/ SellTPAnswered
  \/ TPNotifySettled
  \/ SellSLAnswered
  \/ SLNotifySettled
  \/ PauseOver

SpecSlots == InitSlots /\ [][NextSlots]_vars


\* ---- the prediction loop, called by hand, over a loaded betting history ----
loss == [result |-> "loss", amount |-> Dollar]
win == [result |-> "win", amount |-> Dollar]
HistoryInputs ==
  {<<>>, <<win, loss, loss, loss>>, <<loss, loss, loss, loss>>,
   <<loss, loss, loss, loss, loss>>, <<loss, loss, loss, loss, win>>}
StatsInputs ==
  {[totalBets |-> 0, wins |-> 0, losses |-> 0],
   [totalBets |-> 10, wins |-> 7, losses |-> 3],
   [totalBets |-> 10, wins |-> 3, losses |-> 7],
   [totalBets |-> 4, wins |-> 4, losses |-> 0]}

InitPoly ==
  /\ now = MsPerDay
  /\ ticks = 0
  /\ LimitsInit
  /\ config.maxTradesPerDay = 3
  /\ ExecInit
  /\ TraderInit
  /\ PolyInit
  /\ \E history \in HistoryInputs, stats \in StatsInputs :
       memory = [DEFAULT_MEMORY EXCEPT !.polymarketTrades = history,
                                       !.polymarketStats = stats]
  /\ disk = documentOf(memory)

NextPoly ==
  \/ SetPolymarketStrategy
  \/ Stop
  \/ ScanPolymarket
  \/ BalanceAnswered
  \/ PausedNotifySettled
  \/ BetAnswered
  \/ SkipNotifySettled
  \/ RefineAnswered
  \/ BetNotifySettled
  \/ PolyTick

SpecPoly == InitPoly /\ [][NextPoly]_vars

\* ---- the prediction loop with its timer firing, the API answering and the
\* notifications delivered again and again ----
polyFrame == <<scanVars, monVars, lifecycleVars, baseVars>>
BalanceSucceeds ==
  /\ \E r \in [outcome : {"success"}, response : BalanceTexts] : balanceAnswered(r)
  /\ UNCHANGED polyFrame
BetSucceeds ==
  /\ \E r \in [outcome : {"success"}, response : BetTexts] : betAnswered(r)
  /\ UNCHANGED <<polyFrame, balanceVars>>
NotifyResolves ==
  /\ pausedNotifySettled("resolves") \/ skipNotifySettled("resolves")
       \/ betNotifySettled("resolves")
  /\ UNCHANGED <<polyFrame, balanceVars>>

SpecPolyFair ==
  /\ InitPoly
  /\ [][NextPoly]_vars
  /\ WF_vars(ScanPolymarket)
  /\ SF_vars(BalanceSucceeds)
  /\ SF_vars(BetSucceeds)
  /\ SF_vars(NotifyResolves)
  /\ WF_vars(RefineAnswered)

\* ========================================================================
\* Claims
\* ========================================================================

\* ------------------------------------------------------------------------
\* C1: once recordTrade has latched autoTradeKilled, the latch stays set and
\* every canTrade call returns allowed = false, through any recordTrade calls
\* and date rollovers; the only step that ends this is resetKillSwitch().
\* ------------------------------------------------------------------------
C1_KillSwitchLatched ==
  [][ (autoTradeKilled /\ lastCall' # "resetKillSwitch")
        => /\ autoTradeKilled'
           /\ (lastCall' = "canTrade" => ~canTradeResult'.allowed) ]_vars

\* canTrade is denied by the latch after a later win and a later date rollover
C1_Witness ==
  /\ autoTradeKilled
  /\ lastCall = "canTrade"
  /\ ~canTradeResult.allowed
  /\ consecutiveLosses = 0
  /\ dailyTrades = 0
  /\ records > 0

\* ------------------------------------------------------------------------
\* C2: a safeExecute call with request id X returns "Duplicate execution
\* prevented", without invoking its operation, if and only if another call
\* with id X is running its operation or waiting in a retry backoff; no two
\* calls with the same id are ever in flight together.
\* ------------------------------------------------------------------------
inFlight(id) ==
  \E d \in CallIds : calls[d].pc \in {"running", "sleeping"} /\ calls[d].id = id

\* call c is made in this step
isCalled(c) == calls[c].pc = "new" /\ calls'[c].pc # "new"
\* the request of the call made in this step
calledRequest(c) ==
  IF calls'[c].pc = "returned" THEN lastReturn'.request ELSE calls'[c]

C2_DuplicateStep ==
  \A c \in CallIds : isCalled(c) =>
    LET rejected == /\ calls'[c].pc = "returned"
                    /\ lastReturn'.result = DuplicateResult
    IN /\ rejected <=> inFlight(calledRequest(c).id)
       /\ rejected => calledRequest(c).invocations = 0

C2_OneInFlightPerId ==
  \A c, d \in CallIds :
    (/\ c # d
     /\ calls[c].pc \in {"running", "sleeping"}
     /\ calls[d].pc \in {"running", "sleeping"}) => calls[c].id # calls[d].id

C2_DuplicateSuppression ==
  /\ [][C2_DuplicateStep]_vars
  /\ []C2_OneInFlightPerId

\* a call was rejected as a duplicate of a call that is waiting in its backoff
C2_Witness ==
  /\ lastReturn.result = DuplicateResult
  /\ \E d \in CallIds : calls[d].pc = "sleeping" /\ calls[d].id = lastReturn.request.id

\* ------------------------------------------------------------------------
\* C3: for every (action type, userId) the number of operation invocations
\* started within any 60-second window never exceeds the type's limit,
\* retries included.
\* ------------------------------------------------------------------------
\* every invocation pushes its time on state.requests, and only timestamps
\* that have left the window are ever removed
invocationsInWindow(type, userId) == Len(cleanRequests(type, userId))

C3_RateLimitNeverExceeded ==
  \A type \in ActionTypes, userId \in UserIds :
    invocationsInWindow(type, userId) <= RATE_LIMITS(type).requests

\* ------------------------------------------------------------------------
\* C4: a result stored for request id X (success: 1 hour, terminal failure:
\* 5 minutes) is returned with cached = true, without invoking the operation,
\* to every later call with id X that the rate limiter admits, until its time
\* has elapsed; after that the operation is invoked again.
\* ------------------------------------------------------------------------
ttlOf(result) == IF result.success THEN SuccessTtlMs ELSE FailureTtlMs

C4_CacheState ==
  \A id \in RequestIds :
    executionHistory[id].present =>
      /\ now - executionHistory[id].storedAt <= ttlOf(executionHistory[id].result)
      /\ id \notin pendingExecutions

C4_CacheStep ==
  /\ \A id \in RequestIds :
       \* an entry is removed only when its time has elapsed
       /\ (executionHistory[id].present /\ ~executionHistory'[id].present)
            => now - executionHistory[id].storedAt >= ttlOf(executionHistory[id].result)
       \* and replaced only by the result of a call that ran the operation
       /\ (executionHistory'[id].present /\ executionHistory'[id] # executionHistory[id])
            => /\ ~executionHistory[id].present
               /\ \E c \in CallIds : /\ calls[c].pc = "running"
                                     /\ calls[c].id = id
                                     /\ calls'[c].pc \in {"returned", "unwinding"}
  /\ \A c \in CallIds :
       \* a call that ends its operation stores its result
       /\ (calls[c].pc = "running" /\ calls'[c].pc \in {"returned", "unwinding"})
            => LET result == IF calls'[c].pc = "returned"
                               THEN lastReturn'.result ELSE calls'[c].result
               IN executionHistory'[calls[c].id] =
                    [present |-> TRUE, result |-> result, storedAt |-> now]
       \* a call admitted by the rate limiter gets the stored result, if any
       /\ isCalled(c) =>
            LET request == calledRequest(c)
            IN checkRateLimit(request.type, request.userId).allowed =>
                 IF executionHistory[request.id].present
                   THEN /\ calls'[c].pc = "returned"
                        /\ lastReturn'.result =
                             [executionHistory[request.id].result EXCEPT !.cached = TRUE]
                        /\ request.invocations = 0
                   ELSE request.id \notin pendingExecutions =>
                          /\ calls'[c].pc = "running"
                          /\ calls'[c].invocations = 1

C4_IdempotentExecution ==
  /\ []C4_CacheState
  /\ [][C4_CacheStep]_vars

\* a stored failure is returned as cached some time after it was stored
C4_Witness ==
  /\ lastReturn.result.cached
  /\ ~lastReturn.result.success
  /\ executionHistory[lastReturn.request.id].present
  /\ now > executionHistory[lastReturn.request.id].storedAt

\* ------------------------------------------------------------------------
\* C5: one safeExecute call invokes its operation at most 4 times and returns
\* a result; network, rate_limit and system errors are retried after 2 s,
\* 60 s and 5 s while fewer than 3 retries were made; insufficient_balance,
\* market_closed and invalid_params end the call at once.
\* ------------------------------------------------------------------------
RetryableTypes == {"network", "rate_limit", "system"}
TerminalTypes == {"insufficient_balance", "market_closed", "invalid_params"}
backoffOf(type) ==
  CASE type = "network" -> 2000
    [] type = "rate_limit" -> 60000
    [] type = "system" -> 5000

C5_Counts ==
  /\ \A c \in CallIds :
       /\ calls[c].invocations <= 4
       /\ calls[c].pc \in {"running", "sleeping", "unwinding"}
            => calls[c].invocations = calls[c].retryCount + 1
  /\ lastReturn.request.invocations <= 4
  /\ (lastReturn.result.set /\ ~lastReturn.result.success /\ ~lastReturn.result.cached)
       => \/ lastReturn.result.error.type \in TerminalTypes
          \/ /\ lastReturn.result.error.type \in RetryableTypes
             /\ lastReturn.request.invocations = 4

C5_SettleStep ==
  \A c \in CallIds :
    /\ (calls[c].pc = "running" /\ calls'[c].pc = "sleeping")
         => /\ calls[c].retryCount < 3
            /\ calls'[c].error.type \in RetryableTypes
            /\ calls'[c].wakeAt = now + backoffOf(calls'[c].error.type)
            /\ calls'[c].invocations = calls[c].invocations
    /\ (calls[c].pc = "running" /\ calls'[c].pc \in {"returned", "unwinding"})
         => LET result == IF calls'[c].pc = "returned"
                            THEN lastReturn'.result ELSE calls'[c].result
            IN /\ result.set
               /\ ~result.success =>
                    \/ result.error.type \in TerminalTypes
                    \/ calls[c].retryCount = 3
    /\ (calls[c].pc = "sleeping" /\ calls'[c].pc # "sleeping")
         => /\ calls'[c].pc = "running"
            /\ now >= calls[c].wakeAt
            /\ calls'[c].invocations = calls[c].invocations + 1

C5_BoundedRetry ==
  /\ []C5_Counts
  /\ [][C5_SettleStep]_vars
  /\ \A c \in {1} : (calls[c].pc # "new") ~> (calls[c].pc = "returned")

\* a call returns a retryable failure after its fourth invocation
C5_Witness ==
  /\ lastReturn.result.set
  /\ lastReturn.result.error.type \in RetryableTypes
  /\ lastReturn.request.invocations = 4
  /\ lastReturn.request.retryCount = 3

\* ------------------------------------------------------------------------
\* C6: scanMarket and monitorPositions are each non-re-entrant.  The in-flight
\* flag of an operation is set exactly while a call of it is in flight, on
\* every way the call can end (find failed, no candidates, no open positions,
\* normal end, an Error thrown by the API or by notify); a call made while the
\* flag is set returns at once (scanMarket with "Scan already in progress...")
\* and sends no request and changes neither the store nor the call in flight;
\* and a scan cycle begins (its find request is sent) only when no scan is in
\* flight, a monitor cycle only when no monitor is in flight.
scanRejected ==
  /\ traderReturn' # traderReturn
  /\ traderReturn'.op = "scanMarket"
  /\ isScanning /\ isScanning'

monitorRejected ==
  /\ traderReturn' # traderReturn
  /\ traderReturn'.op = "monitorPositions"
  /\ isMonitoring /\ isMonitoring'

C6_FlagsTrackCycles ==
  /\ isScanning <=> scan.pc # "idle"
  /\ isMonitoring <=> mon.pc # "idle"
  /\ isScanning <=> \E r \in outbox : r.from = "scan"
  /\ Cardinality({r \in outbox : r.from = "scan"}) <= 1

C6_CallStep ==
  /\ scanRejected =>
       /\ traderReturn'.value = "Scan already in progress..."
       /\ UNCHANGED <<memory, outbox, scan, mon, isMonitoring>>
  /\ monitorRejected => UNCHANGED <<memory, outbox, scan, mon, isScanning>>
  /\ Request("scan", "find", "") \in outbox' \ outbox => ~isScanning /\ isScanning'
  /\ (mon.pc = "idle" /\ mon'.pc # "idle") => ~isMonitoring /\ isMonitoring'
  /\ (traderReturn' # traderReturn /\ traderReturn'.op = "scanMarket" /\ ~isScanning')
       => (isScanning /\ traderReturn'.value # "Scan already in progress...")

C7_StoppedMeansNoTimers == lastLifecycle = "stop" => timers = {}

\* ------------------------------------------------------------------------
\* C8: in one monitorPositions cycle, for the position being handled at most
\* one sell request is sent and closeTrade is applied at most once, for every
\* takeProfitPct and stopLossPct the settings can hold.
C8_OneExitPerPosition == mon.sells <= 1 /\ mon.closes <= 1

\* ------------------------------------------------------------------------
\* C9: a TradeEntry has status closed if and only if its pnl, exitPrice and
\* exitTimestamp are all set; an entry that is open or failed has none of the
\* three set.
C9_ClosedIffExitFields ==
  \A i \in DOMAIN memory.trades :
    LET t == memory.trades[i]
    IN  /\ t.status = "closed" <=> (t.pnl.set /\ t.exitPrice.set /\ t.exitTimestamp.set)
        /\ t.status # "closed" => ~(t.pnl.set \/ t.exitPrice.set \/ t.exitTimestamp.set)

\* one entry was closed by the monitor and another one is still open
C9_Witness ==
  /\ \E i \in DOMAIN memory.trades : memory.trades[i].status = "closed"
  /\ \E i \in DOMAIN memory.trades : memory.trades[i].status = "open"

\* ------------------------------------------------------------------------
\* C10: the trader sends a buy request only while the Risk Guard would allow
\* it: no buy request is sent, and no open TradeEntry is logged, while the
\* kill switch is latched.
C10_BuysGatedByRiskGuard ==
  [][/\ (\E r \in outbox' \ outbox : r.kind = "buy") => ~autoTradeKilled
     /\ (\E i \in DOMAIN memory'.trades \ DOMAIN memory.trades :
           memory'.trades[i].status = "open") => ~autoTradeKilled]_vars

\* ------------------------------------------------------------------------
\* C11 (as stated): while the last 4 or more PolymarketTrade records are all
\* losses, no bet-placement request is sent or outstanding, no record is
\* appended and totalBets does not change, and a scanPolymarket cycle ends by
\* returning the skip message, the paused notification having been sent.
lossStreak == countConsecutiveLosses(memory.polymarketTrades)
polyCycleEnds == pm.pc # "idle" /\ pm'.pc = "idle"
skipMessage == "Skipped: 4+ consecutive losses"

C11_NoBetWhilePaused ==
  /\ (lossStreak >= PauseAtLosses /\ polymarketStrategy # NoStrategy) =>
       polyRequest("bet") \notin outbox
  /\ (lossStreak >= PauseAtLosses /\ pm.pc # "idle") => polyRequest("bet") \notin outbox

C11_PausedStep ==
  lossStreak >= PauseAtLosses =>
    /\ polyRequest("bet") \notin outbox'
    /\ memory'.polymarketTrades = memory.polymarketTrades
    /\ memory'.polymarketStats = memory.polymarketStats
    /\ (pm.pc \in {"idle", "balance"} /\ pm'.pc \notin {"idle", "balance"}) =>
         (pm'.pc = "paused" /\ polyRequest("notifyPaused") \in outbox')

C11_AsStated ==
  [][/\ C11_PausedStep
     /\ (lossStreak >= PauseAtLosses /\ polyCycleEnds) =>
          traderReturn'.value = skipMessage]_vars

\* C11 (amended): as above, except for the value returned: the cycle returns
\* the skip message when the paused notification was delivered, and the
\* "Polymarket scan error" message when notify or the balance request threw;
\* the skip message is returned only after the paused notification was sent.
C11_PausedCycleEnd ==
  /\ (lossStreak >= PauseAtLosses /\ polyCycleEnds) =>
       /\ traderReturn'.value \in {skipMessage, "Polymarket scan error"}
       /\ pm.pc = "balance" => traderReturn'.value = "Polymarket scan error"
  /\ (polyCycleEnds /\ traderReturn'.value = skipMessage) =>
       (pm.pc = "paused" /\ lossStreak >= PauseAtLosses)

C11_PauseAfterFourLosses ==
  []C11_NoBetWhilePaused /\ [][C11_PausedStep /\ C11_PausedCycleEnd]_vars

\* a cycle over a history ending in 4 losses has returned the skip message
C11_Witness ==
  /\ lossStreak >= PauseAtLosses
  /\ pm.pc = "idle"
  /\ traderReturn = [op |-> "scanPolymarket", value |-> skipMessage]

\* ------------------------------------------------------------------------
\* C12: the amount of every bet-placement request equals the reference
\* formula: winRate = wins/totalBets (1/2 with no bets), edge = max(1/10,
\* winRate - 1/2), riskFactor = 1/2 for survival language, else 3/2 if
\* winRate > 6/10 with at least 5 bets, else 6/10 if winRate < 4/10 with at
\* least 5 bets, else 1; amount = floor(balance x edge x riskFactor), at most
\* 5% of the balance and at least 1; then halved (floor, at least 1) when the
\* trailing loss streak is 2 or 3.
floorOf(num, den) == CHOOSE k \in 0..(num + 1) : k * den <= num /\ num < (k + 1) * den

referenceAmount(balance, stats, strategy, streak) ==
  LET w == IF stats.totalBets = 0 THEN <<1, 2>> ELSE <<stats.wins, stats.totalBets>>
      enough == stats.totalBets >= 5
      \* edge = e[1] / e[2]
      e == IF (2 * w[1] - w[2]) * 10 > 2 * w[2] THEN <<2 * w[1] - w[2], 2 * w[2]>>
           ELSE <<1, 10>>
      \* riskFactor = f[1] / f[2]
      f == IF isSurvivalMode(strategy) THEN <<1, 2>>
           ELSE IF enough /\ w[1] * 10 > 6 * w[2] THEN <<3, 2>>
           ELSE IF enough /\ w[1] * 10 < 4 * w[2] THEN <<6, 10>>
           ELSE <<1, 1>>
      raw == floorOf(balance * e[1] * f[1], Dollar * e[2] * f[2]) * Dollar
      cap == floorOf(balance * 5, 100)
      capped == IF raw > cap THEN cap ELSE raw
      amount == IF capped < Dollar THEN Dollar ELSE capped
      half == floorOf(amount, 2 * Dollar) * Dollar
  IN  IF streak \in {2, 3} THEN (IF half < Dollar THEN Dollar ELSE half) ELSE amount

betSent == polyRequest("bet") \in outbox' \ outbox

C13_AsStated ==
  [][(\E r \in outbox' \ outbox : r.from = "polymarket" /\ r.kind \in {"balance", "bet"})
       => polymarketStrategy # NoStrategy]_vars

\* C13 (amended): a prediction cycle begins only while a strategy is set: a
\* scanPolymarket call with no strategy returns "No Polymarket strategy set",
\* sends nothing and changes neither the store nor the balance cache, and
\* every request of the prediction loop comes from a cycle begun under a
\* strategy (a cycle in flight when stop() clears the strategy still runs to
\* its end).  setPolymarketStrategy sends no request, changes no store and
\* arms no timer.
strategySet == polymarketStrategy' # polymarketStrategy /\ polymarketStrategy' # NoStrategy

C13_Step ==
  /\ (pm.pc = "idle" /\ pm'.pc # "idle") => polymarketStrategy # NoStrategy
  /\ (pm.pc = "idle" /\ \E r \in outbox' \ outbox : r.from = "polymarket") =>
       polymarketStrategy # NoStrategy
  /\ (polymarketStrategy = NoStrategy /\ traderReturn' # traderReturn
        /\ traderReturn'.op = "scanPolymarket" /\ pm.pc = "idle") =>
       /\ traderReturn'.value = "No Polymarket strategy set"
       /\ UNCHANGED <<outbox, memory, pm, cachedPolygonBalance, balanceCacheTimestamp>>
  /\ strategySet => UNCHANGED <<outbox, memory, timers, pm, scanTimer, monitorTimer,
                                polymarketTimer>>

C13_NoSelfActivation ==
  [](pm.pc = "idle" => \A r \in outbox : r.from # "polymarket") /\ [][C13_Step]_vars

\* a cycle begun under a strategy is at its bet request after stop() cleared
\* the strategy
C13_Witness ==
  /\ pm.pc = "bet"
  /\ polymarketStrategy = NoStrategy
  /\ lastLifecycle = "stop"

\* ------------------------------------------------------------------------
\* C19: a step appends a PolymarketTrade exactly when it is the answer to a
\* bet-placement request that succeeded with a response that is not a skip;
\* the record appended has result pending and totalBets grows by 1 with it;
\* on a skip, a failure, a thrown error or a guard's skip nothing is appended
\* and totalBets is unchanged.
betAppended == Len(memory'.polymarketTrades) = Len(memory.polymarketTrades) + 1

C19_Step ==
  /\ memory'.polymarketStats.totalBets - memory.polymarketStats.totalBets
       = Len(memory'.polymarketTrades) - Len(memory.polymarketTrades)
  /\ betAppended \/ memory'.polymarketTrades = memory.polymarketTrades
  /\ betAppended =>
       /\ memory'.polymarketTrades[Len(memory'.polymarketTrades)].result = "pending"
       /\ SubSeq(memory'.polymarketTrades, 1, Len(memory.polymarketTrades))
            = memory.polymarketTrades
  /\ betAppended <=> (pm.pc = "bet" /\ pm'.pc = "refine")
  /\ (pm.pc = "bet" /\ pm'.pc = "refine") => ~isSkip(pm'.response)
  /\ (pm.pc = "bet" /\ pm'.pc = "skipped") => isSkip(pm'.response)

C19_BetsCounted == [][C19_Step]_vars

\* a bet was logged on top of a loaded history of 10 bets
C19_Witness ==
  /\ betsLogged = 1
  /\ memory.polymarketStats.totalBets = 11
  /\ pm.pc = "idle"

\* ------------------------------------------------------------------------
\* C14: a start() step arms a scan timer at settings.scanIntervalMin and a
\* monitor timer at 5 minutes, and arms a prediction-loop timer exactly when
\* a strategy has been set.
startStep == lastLifecycle' = "start" /\ handles' = handles + 2

C14_StartArmsPredictionTimer ==
  [][startStep =>
       /\ \E t \in timers' \ timers :
            t.kind = "scan" /\ t.ms = memory.settings.scanIntervalMin * MsPerMinute
       /\ \E t \in timers' \ timers : t.kind = "monitor" /\ t.ms = MonitorMs
       /\ (polymarketStrategy # NoStrategy) <=>
            (\E t \in timers' \ timers : t.kind = "polymarket")]_vars

\* ------------------------------------------------------------------------
\* C15 (as stated): once maxTradesPerDay recordTrade calls were made on the
\* current date, canTrade returns allowed = false with the reason 'Daily
\* trade limit reached', whatever the position size and portfolio value.
dailyLimitReached == lastCall = "canTrade" /\ dailyTrades >= config.maxTradesPerDay

C15_AsStated ==
  dailyLimitReached =>
    canTradeResult = [allowed |-> FALSE, reason |-> "Daily trade limit reached"]

\* C15 (amended): every recordTrade adds 1 to the day's count; once the count
\* has reached maxTradesPerDay canTrade returns allowed = false for every
\* position size and portfolio value, with the reason 'Daily trade limit
\* reached' unless the kill switch is latched, whose reason takes precedence.
\* The first call after the calendar date changed resets dailyTrades and
\* dailyLoss to 0 before doing anything else, leaves consecutiveLosses,
\* totalDrawdown and autoTradeKilled as they were, and canTrade is then not
\* denied by the daily trade limit.
C15_Denied ==
  dailyLimitReached =>
    /\ ~canTradeResult.allowed
    /\ canTradeResult.reason =
         IF autoTradeKilled THEN "Auto-trade disabled due to excessive drawdown"
         ELSE "Daily trade limit reached"

C15_Step ==
  /\ lastCall' = "recordTrade" => dailyTrades' = (IF newDay THEN 0 ELSE dailyTrades) + 1
  /\ (newDay /\ lastCall' \in {"canTrade", "isDailyLossExceeded"}) =>
       /\ dailyTrades' = 0
       /\ dailyLoss' = 0
       /\ lastResetDate' = today
       /\ UNCHANGED <<consecutiveLosses, totalDrawdown, autoTradeKilled>>
  /\ (newDay /\ lastCall' = "canTrade") =>
       /\ canTradeResult'.reason # "Daily trade limit reached"
       /\ canTradeResult'.allowed <=>
            canTradeResult'.reason \notin {"Auto-trade disabled due to excessive drawdown",
                                           "Position size exceeds limit",
                                           "Cooldown active after loss streak"}
  /\ (~newDay /\ lastCall' \notin {"recordTrade"}) => UNCHANGED <<dailyTrades, dailyLoss>>

C15_DailyTradeLimit == []C15_Denied /\ [][C15_Step]_vars

\* canTrade was denied for the daily trade limit, the kill switch not latched
C15_Witness ==
  /\ dailyLimitReached
  /\ ~autoTradeKilled
  /\ records >= config.maxTradesPerDay
  /\ canTradeResult = [allowed |-> FALSE, reason |-> "Daily trade limit reached"]

\* ------------------------------------------------------------------------
\* C16: with auto-trade enabled a scan sends buy requests for exactly the
\* first min(maxOpenPositions - openCount, number of viable candidates)
\* candidates of the score-descending list restricted to score >= 60, one
\* request each and in that order, and never for a candidate below 60.
openCount == Cardinality({k \in DOMAIN memory.trades : memory.trades[k].status = "open"})
viableCount(cs) == Cardinality({k \in DOMAIN cs : cs[k].score >= ViableScore})
descending(cs) == \A k, l \in DOMAIN cs : k < l => cs[k].score >= cs[l].score
buysWanted(cs) ==
  LET free == memory.settings.maxOpenPositions - openCount
  IN  IF free < viableCount(cs) THEN free ELSE viableCount(cs)
newBuyRequests == {r \in outbox' \ outbox : r.kind = "buy"}
researchDone == scan.pc = "research" /\ scan'.pc \in {"buy", "notify"}

C16_Step ==
  /\ researchDone =>
       /\ descending(scan'.candidates)
       /\ IF memory.settings.autoTradeEnabled /\ buysWanted(scan'.candidates) > 0
          THEN /\ scan'.pc = "buy"
               /\ scan'.i = 1
               \* a descending list has its viable candidates first
               /\ scan'.toBuy = SubSeq(scan'.candidates, 1, buysWanted(scan'.candidates))
          ELSE scan'.pc = "notify" /\ newBuyRequests = {}
  /\ newBuyRequests # {} =>
       /\ scan'.pc = "buy"
       /\ newBuyRequests = {Request("scan", "buy", scan'.toBuy[scan'.i].symbol)}
       /\ scan'.toBuy[scan'.i].score >= ViableScore
       /\ \/ scan.pc = "research" /\ scan'.i = 1
          \/ scan.pc = "buy" /\ scan'.i = scan.i + 1 /\ scan'.toBuy = scan.toBuy
  /\ (scan.pc = "buy" /\ scan' # scan) =>
       IF scan.i < Len(scan.toBuy)
       THEN newBuyRequests # {}
       ELSE scan'.pc = "notify" /\ newBuyRequests = {}
  /\ scan.pc \notin {"research", "buy"} => newBuyRequests = {}

C16_BuysAreTopViable == [][C16_Step]_vars

\* candidates scoring 65 and 40 with one free slot: one buy, for the 65
C16_Witness ==
  /\ scan.pc = "notify"
  /\ Len(scan.candidates) = 2
  /\ scan.candidates[1].score = 65
  /\ scan.candidates[2].score = 40
  /\ memory.settings.maxOpenPositions = 1
  /\ Len(scan.toBuy) = 1
  /\ scan.toBuy[1].symbol = scan.candidates[1].symbol
  /\ Len(memory.trades) = 1
  /\ memory.trades[1].symbol = scan.candidates[1].symbol

\* ------------------------------------------------------------------------
\* C17: the number of TradeEntry records with status open never exceeds
\* settings.maxOpenPositions (which no action of this specification lowers),
\* and a scan that finds the open count at the maximum sends no buy request.
C17_Step ==
  /\ memory'.settings.maxOpenPositions >= memory.settings.maxOpenPositions
  /\ (scan.pc = "research" /\ openCount >= memory.settings.maxOpenPositions) =>
       newBuyRequests = {}

C17_OpenWithinMaximum ==
  [](openCount <= memory.settings.maxOpenPositions) /\ [][C17_Step]_vars

\* a scan found viable candidates with every slot taken and bought nothing
C17_Witness ==
  /\ scan.pc = "notify"
  /\ openCount = memory.settings.maxOpenPositions
  /\ viableCount(scan.candidates) > 0
  /\ scan.toBuy = <<>>

\* ------------------------------------------------------------------------
\* C18: every buy request the scanner sent is answered by appending exactly
\* one TradeEntry and adding 1 to totalTrades, with status open when the
\* request succeeded and failed otherwise, a thrown error included.
buySettled == \E r \in outbox \ outbox' : r.kind = "buy"

C18_EveryBuyLogged ==
  [][buySettled =>
       /\ Len(memory'.trades) = Len(memory.trades) + 1
       /\ memory'.totalTrades = memory.totalTrades + 1
       /\ memory'.trades[Len(memory'.trades)].status \in {"open", "failed"}
       /\ memory'.trades[Len(memory'.trades)].symbol = scan.toBuy[scan.i].symbol]_vars

\* ------------------------------------------------------------------------
\* C20: a safeExecute call whose operation threw twice, the second time a
\* network error (ECONNRESET), and then succeeded
\* returns success after exactly 3 invocations, at least 2 x 2 s after it was
\* made, with the success cached under its request id, and the result it
\* returns reports the 2 retries (retryCount).
succeededOnThird ==
  /\ lastReturn.result.set
  /\ lastReturn.result.success
  /\ ~lastReturn.result.cached
  /\ lastReturn.request.invocations = 3
  /\ lastReturn.request.error.type = "network"

C20_RetriesReported ==
  succeededOnThird =>
    /\ now >= 2 * backoffOf("network")
    /\ executionHistory[lastReturn.request.id].present
    /\ executionHistory[lastReturn.request.id].result.success
    /\ "retryCount" \in DOMAIN lastReturn.result
    /\ lastReturn.result.retryCount = 2

\* ------------------------------------------------------------------------
\* C21: once the losses recorded on the current date sum to maxDailyLossUsd
\* or more, canTrade returns allowed = false, for every position size.
C21_DailyLossGatesTrading ==
  (lastCall = "canTrade" /\ dailyLoss >= config.maxDailyLossUsd) =>
    ~canTradeResult.allowed

\* ------------------------------------------------------------------------
\* C28 (as stated): a positive totalDrawdown is brought to 0 by
\* resetKillSwitch only, never by a winning recordTrade.
C28_AsStated ==
  [][(totalDrawdown > 0 /\ totalDrawdown' = 0) => lastCall' = "resetKillSwitch"]_vars

\* C28 (amended): recordTrade with a win sets consecutiveLosses to 0 and
\* lowers totalDrawdown by half the pnl but not below 0, so a win of at least
\* twice the drawdown brings it to 0; a win never clears autoTradeKilled, and
\* besides such wins only resetKillSwitch zeroes the drawdown.
winRecorded == lastCall' = "recordTrade" /\ dailyLoss' = dailyLossAfterReset

C28_Step ==
  /\ winRecorded =>
       /\ consecutiveLosses' = 0
       /\ autoTradeKilled' = autoTradeKilled
       /\ \E pnlUsd \in {p \in PnlInputs : p >= 0} :
            totalDrawdown' = (IF 2 * totalDrawdown <= pnlUsd THEN 0
                              ELSE totalDrawdown - pnlUsd \div 2)
  /\ (totalDrawdown > 0 /\ totalDrawdown' = 0) =>
       (winRecorded \/ lastCall' = "resetKillSwitch")
  /\ (lastCall' = "recordTrade" /\ ~winRecorded) => totalDrawdown' > totalDrawdown

C28_WinsRelieveDrawdown == [](totalDrawdown >= 0) /\ [][C28_Step]_vars

\* a loss of 20 followed by a win: the drawdown is back at 0, no reset needed
C28_Witness ==
  /\ lastCall = "recordTrade"
  /\ records = 2
  /\ dailyTrades = 2
  /\ dailyLoss = 20
  /\ consecutiveLosses = 0
  /\ totalDrawdown = 0

\* ------------------------------------------------------------------------
\* C22: generateRequestId is a function of the type and the parameters alone:
\* two calls with the same type and the same parameters, in any key order and
\* at any times, return the same id.
sameParams(p, q) ==
  {p[i] : i \in DOMAIN p} = {q[i] : i \in DOMAIN q}

C22_DeterministicRequestId ==
  \A a, b \in requestIds :
    (a.type = b.type /\ sameParams(a.params, b.params)) => a.id = b.id

\* ------------------------------------------------------------------------
\* C23: after every closeTrade, and so in every state, memory.winRate is the
\* number of closed trades with pnl > 0 over the number of closed trades;
\* closing a trade again with the same pnl (a recomputation over the same
\* closes) gives the same value.
closedEntries == SelectSeq(memory.trades, LAMBDA t : t.status = "closed")
winningEntries == SelectSeq(closedEntries, LAMBDA t : t.pnl.set /\ t.pnl.v > 0)

C23_Step ==
  \A k \in DOMAIN memory.trades :
    (memory.trades[k].status = "closed" /\ memory'.trades = memory.trades
       /\ memory'.totalPnl # memory.totalPnl) =>
      memory'.winRate = memory.winRate

tradesKept(before, after) ==
  \A k \in DOMAIN before.trades :
    /\ k \in DOMAIN after.trades
    /\ after.trades[k].id = before.trades[k].id
    /\ before.trades[k].status = "closed" =>
         (after.trades[k].status = "closed" /\ after.trades[k].pnl.set)

C24_Step ==
  /\ memory' # memory => disk' = memory'
  /\ disk' # disk => disk' = memory'
  /\ tradesKept(memory, memory')
  /\ disk # NoDocument => tradesKept(disk, disk')

BetTimeoutMs == 180000

C25_BetRequestTimesOut ==
  [][(pm.pc = "bet" /\ now' >= now + BetTimeoutMs) => pm'.pc # "bet"]_vars

\* ------------------------------------------------------------------------
\* C26: a notification callback that rejects has no effect on a cycle beyond
\* the lost message: the scanMarket call whose notification has settled
\* returns its report, and the store is as it was.
\* ------------------------------------------------------------------------
C26_NotifyFailureSwallowed ==
  [][(scan.pc = "notify" /\ scan'.pc = "idle") =>
       (traderReturn'.value = "report" /\ memory' = memory /\ disk' = disk)]_vars

\* ------------------------------------------------------------------------
\* C29: for every cached balance and every win/loss history, the amount in
\* the bet-placement request is at most 5% of the balance.
\* ------------------------------------------------------------------------
C29_BetWithinFivePercent ==
  pm.pc = "bet" => 20 * pm.amount <= cachedPolygonBalance

\* ------------------------------------------------------------------------
\* C30: the loss-streak pause is temporary: after a cycle was skipped for 4
\* or more consecutive losses, a later scanPolymarket call sends a
\* bet-placement request, the stored results being changed by the loop only
\* (unless stop() has cleared the strategy in between).
\* ------------------------------------------------------------------------
C30_PauseIsTemporary ==
  (pm.pc = "paused") ~> (pm.pc = "bet" \/ polymarketStrategy = NoStrategy)

\* ------------------------------------------------------------------------
\* C27: scanMarket, monitorPositions, scanPolymarket and manualResearch never
\* throw or reject, whatever the external API does: no call of a trader
\* method ends in a rejected promise, and the timers armed stay armed.
\* ------------------------------------------------------------------------
C27_NothingEscapes ==
  [][/\ traderReturn'.value # Rejected
     /\ (traderReturn' # traderReturn => timers' = timers)]_vars

====
